---- MODULE Spec2Model ----
(***************************************************************************)
(* A model of appmetrics: the sampling reservoirs of histogram.py and the  *)
(* metrics registry of metrics.py.                                         *)
(*                                                                         *)
(* Time is an integer clock.  One unit of the clock stands for 1800 s, so  *)
(* RESCALE_THRESHOLD (3600 s) is 2 units.  Priorities of the exponentially *)
(* decaying reservoir are fixed-point integers in units of EPSILON / 2, so *)
(* EPSILON (1e-12) is 2 units; exp(alpha * dt) is 2^dt.                    *)
(*                                                                         *)
(* A Python thread is a process with a program counter pc[t]; a step is a  *)
(* stretch of code no other thread can observe the inside of (one bytecode *)
(* effect on shared state, or a stretch that touches only locals).         *)
(***************************************************************************)
EXTENDS Integers, Sequences, FiniteSets, TLC

VARIABLES
    threads,          \* the threads that call into the library
    pc,               \* pc[t]: where thread t is
    loc,              \* loc[t]: the locals of the call thread t is in
    ret,              \* ret[t]: what the last call of thread t returned (registry:
                      \* what the call that has just ended returned or raised)
    kind,             \* the class of the reservoir
    clock,            \* time.time()
    values,           \* self._values
    deque,            \* SlidingWindowReservoir.deque
    count,            \* self.count
    lock,             \* self.lock: 0 when free, else the holder
    start_time,       \* ExponentialDecayingReservoir.start_time
    next_scale_time,  \* ExponentialDecayingReservoir.next_scale_time
    budget,           \* the number of add calls still to be made
    hist,             \* sliding windows: <<now, value>> of every add call, in call order
    REGISTRY,         \* metrics.REGISTRY: name -> instrument, a dict
    TAGS,             \* metrics.TAGS: tag -> set of names, a dict
    LOCK,             \* metrics.LOCK: 0 when free, else the holder
    instruments,      \* the instruments that REGISTRY holds: instrument -> its class,
                      \* the reservoir it was built with, how many values it was notified
    meter,            \* a Meter: its fields, and those of its four EWMAs
    mhist,            \* the meter: what has been observed and ticked so far
    timers,           \* the Timer objects of reporter.py, by identifier
    reporter_REGISTRY,\* reporter.REGISTRY: identifier -> timer
    rlog              \* for each timer, what it did at every tick it slept to

tvars == <<threads, pc, loc, ret>>
gvars == <<REGISTRY, TAGS, LOCK, instruments>>
pvars == <<timers, reporter_REGISTRY, rlog>>
ovars == <<meter, mhist, pvars>>
rvars == <<kind, clock, values, deque, count, lock, start_time, next_scale_time, budget, hist>>
vars == <<tvars, rvars, gvars, ovars>>

----------------------------------------------------------------------------
(* Bounds of the model *)

MaxVal == 2
MaxClock == 4
MaxAdds == 3
MaxCallerAdds == 2
NTags == 1
NThreads == 2
RndMax == 4

(* Parameters and constants of the program *)

size == 2
window_size == 2
RESCALE_THRESHOLD == 2
EPSILON == 2

Vals == 1..MaxVal

\* the arguments of add: a float, None, or a text that is no number
Inputs ==
    {[type |-> "float", v |-> n] : n \in Vals}
        \cup {[type |-> "NoneType", v |-> 0], [type |-> "str", v |-> 0]}
AllThreads == 1..NThreads
\* what a call of code of the caller does (the callback of a registration, the block
\* of a with statement): it returns, or it raises
Outcomes == {"returns", "raises"}
None == "None"
NoIdx == -1

\* a returned bool
Bool(b) == IF b THEN "True" ELSE "False"

Min(a, b) == IF a < b THEN a ELSE b
Max(a, b) == IF a > b THEN a ELSE b
Abs(a) == IF a < 0 THEN -a ELSE a

RECURSIVE Pow2(_)
Pow2(n) == IF n <= 0 THEN 1 ELSE 2 * Pow2(n - 1)

\* [y for x, y in pairs]
Seconds(pairs) == [i \in 1..Len(pairs) |-> pairs[i][2]]

----------------------------------------------------------------------------
(* histogram.py: helpers *)

RECURSIVE bisect(_, _, _, _)
bisect(vals, target, first, last) ==
    IF first < last
    THEN LET middle == (first + last) \div 2 IN
         IF vals[middle + 1][1] < target
         THEN bisect(vals, target, middle + 1, last)
         ELSE bisect(vals, target, first, middle)
    ELSE first

\* faulty variant: the comparison of the search is <= , so an entry equal to target is skipped
RECURSIVE bisect_le(_, _, _, _)
bisect_le(vals, target, first, last) ==
    IF first < last
    THEN LET middle == (first + last) \div 2 IN
         IF vals[middle + 1][1] <= target
         THEN bisect_le(vals, target, middle + 1, last)
         ELSE bisect_le(vals, target, first, middle)
    ELSE first

search_greater_le(vals, target) == bisect_le(vals, target, 0, Len(vals))

\* the first 0-based index whose key is >= target, Len(vals) when there is none
search_greater(vals, target) == bisect(vals, target, 0, Len(vals))

----------------------------------------------------------------------------
(* UniformReservoir *)

\* faulty variant: while the reservoir fills, the value is stored in the slot before
Uniform_do_add_slot_before(vals, cnt, value, k) ==
    IF cnt < size
    THEN [values |-> [vals EXCEPT ![Max(cnt, 1)] = value], count |-> cnt + 1, changed |-> TRUE]
    ELSE [values |-> vals, count |-> cnt + 1, changed |-> FALSE]

\* faulty variant: a full reservoir stores the value whatever k is
Uniform_do_add_any_draw(vals, cnt, value, k) ==
    [values |-> [vals EXCEPT ![IF cnt < size THEN cnt + 1 ELSE (k % size) + 1] = value],
     count |-> cnt + 1, changed |-> TRUE]

Uniform_do_add(vals, cnt, value, k) ==
    IF cnt < size
    THEN [values |-> [vals EXCEPT ![cnt + 1] = value], count |-> cnt + 1, changed |-> TRUE]
    ELSE IF k < size
         THEN [values |-> [vals EXCEPT ![k + 1] = value], count |-> cnt + 1, changed |-> TRUE]
         ELSE [values |-> vals, count |-> cnt + 1, changed |-> FALSE]

\* k = int(random.uniform(0, self.count)), drawn only when the reservoir is full
Uniform_draws(cnt) == IF cnt < size THEN {NoIdx} ELSE 0..(cnt - 1)

Uniform_get_values(vals, cnt) == SubSeq(vals, 1, Min(cnt, size))

(* SlidingWindowReservoir: collections.deque(maxlen=size).append *)

\* faulty variant: a full deque drops the new value instead of the oldest
deque_append_keep_old(dq, value) ==
    IF Len(dq) = size THEN dq ELSE Append(dq, value)

deque_append(dq, value) ==
    IF Len(dq) = size THEN Append(Tail(dq), value) ELSE Append(dq, value)

SlidingWindow_get_values(dq) == dq

(* SlidingTimeWindowReservoir *)

\* tick(now): the index found and the list tick assigns when the index is not 0
SlidingTime_tick(vals, now) ==
    LET target == now - window_size
        idx == search_greater(vals, target)
    IN [idx |-> idx, rest |-> SubSeq(vals, idx + 1, Len(vals))]

SlidingTime_get_values(vals) == Seconds(vals)

(* ExponentialDecayingReservoir *)

\* weight(now - start_time) / rnd, with rnd / RndMax the draw in (0, 1]
weighted(dt, rnd) ==
    IF dt >= 0 THEN (Pow2(dt) * RndMax) \div rnd
    ELSE (RndMax \div Pow2(-dt)) \div rnd

\* faulty variant: the priority is left as it is
scaled_by_one(k, dt) == k

\* k * exp(-alpha * dt)
scaled(k, dt) == IF dt >= 0 THEN k \div Pow2(dt) ELSE k * Pow2(-dt)

ExpDecay_lookup(vals, timestamp) ==
    LET idx == search_greater(vals, timestamp) IN
    IF idx < Len(vals) /\ Abs(vals[idx + 1][1] - timestamp) < EPSILON
    THEN idx ELSE NoIdx

ExpDecay_put(vals, timestamp, value) ==
    LET idx == ExpDecay_lookup(vals, timestamp) IN
    IF idx # NoIdx
    THEN [vals EXCEPT ![idx + 1] = <<timestamp, value>>]
    ELSE Append(vals, <<timestamp, value>>)

\* x put behind the entries of the sorted list s whose key is <= its own
insert_by_key(s, x) ==
    LET n == Cardinality({i \in 1..Len(s) : s[i][1] <= x[1]}) IN
    SubSeq(s, 1, n) \o <<x>> \o SubSeq(s, n + 1, Len(s))

\* faulty variant: the list is left as it is
sort_by_key_unsorted(s) == s

\* list.sort(key=itemgetter(0)): a stable sort
RECURSIVE sort_by_key(_)
sort_by_key(s) ==
    IF s = <<>> THEN <<>>
    ELSE insert_by_key(sort_by_key(SubSeq(s, 1, Len(s) - 1)), s[Len(s)])

\* faulty variant: the sample is put whatever the count
ExpDecay_admit_no_capacity(vals, cnt, weighted_time, value) ==
    [values |-> ExpDecay_put(vals, weighted_time, value), changed |-> TRUE]

\* the body of "with self.lock" in _do_add, up to the sort
ExpDecay_admit(vals, cnt, weighted_time, value) ==
    IF cnt < size
    THEN [values |-> ExpDecay_put(vals, weighted_time, value), changed |-> TRUE]
    ELSE LET first == vals[1][1] IN
         IF first < weighted_time /\ ExpDecay_lookup(vals, weighted_time) = NoIdx
         THEN [values |-> [vals EXCEPT ![1] = <<weighted_time, value>>], changed |-> TRUE]
         ELSE [values |-> vals, changed |-> FALSE]

ExpDecay_get_values(vals, cnt) == Seconds(SubSeq(vals, 1, Min(Len(vals), Max(cnt, size))))

-----------------------------------------------------------------------------
(* meter.py: the state of a Meter and of its four EWMAs *)

MaxNotify == 2        \* how many observations the callers make
tick_interval == 2    \* Meter(tick_interval), in seconds of the clock
RateScale == 1000     \* a rate r is held as the integer part of r * RateScale
AlphaScale == 10000   \* a smoothing factor a is held as the integer part of a * AlphaScale
Unit == 2             \* an observed value v is held as the integer v * Unit

\* the values notified: whole numbers, and one that is not whole
Observations == {n * Unit : n \in 1..MaxVal} \cup {Unit + 1}

\* int(value), value not being negative
int(value) == value \div Unit

\* (self.m1, self.m5, self.m15, self.day) and the time_period of each, in minutes
Avgs == <<"m1", "m5", "m15", "day">>
Periods == <<1, 5, 15, 60 * 24>>
AvgIdx == DOMAIN Avgs

\* 1 - math.exp(-interval / (60.0 * period)), by the series x - x^2/2 + x^3/6
compute_alpha(period, interval) ==
    LET x == (interval * AlphaScale) \div (60 * period)
    IN  x - (x * x) \div (2 * AlphaScale) + (x * x * x) \div (6 * AlphaScale * AlphaScale)

\* Meter.__init__ at time now: each EWMA has rate 0.0, value 0 and is not initialized
Meter_init(now) ==
    [value |-> [j \in AvgIdx |-> 0],
     rate |-> [j \in AvgIdx |-> 0],
     initialized |-> [j \in AvgIdx |-> FALSE],
     alpha |-> [j \in AvgIdx |-> compute_alpha(Periods[j], tick_interval)],
     started_on |-> now, latest_tick |-> now, count |-> 0, lock |-> 0]

\* what was done to the meter: observed, the values notified, in the order of the
\* calls; ticked[j], how many times EWMA j was ticked; consumed[j], the sum of what its
\* ticks read from its accumulator; left, the observations still to be made
NoObservations ==
    [observed |-> <<>>, ticked |-> [j \in AvgIdx |-> 0], consumed |-> [j \in AvgIdx |-> 0],
     left |-> MaxNotify]

----------------------------------------------------------------------------
(* The state after construction *)

\* the locals of a call, and a record of what ran beside it. For an add: before, the
\* contents when it was called; seen, what the values() calls of other threads that
\* began and ended inside it returned, when that is not the contents before; alone,
\* whether no other add ran meanwhile. For a values(): inside, the threads that were
\* in an add when it was called and still are in that add.
NoLoc == [op |-> "none", now |-> 0, value |-> 0, idx |-> 0, tmp |-> <<>>, i |-> 0,
          wt |-> 0, changed |-> FALSE, before |-> <<>>, seen |-> {}, alone |-> TRUE,
          inside |-> {}]
\* what a call returned; for an add of the Uniform reservoir also arg, the value added,
\* and drawn, the k it drew (NoIdx when it drew none)
NoRet == [op |-> "none", val |-> None, now |-> 0, stored |-> FALSE, torn |-> FALSE,
          arg |-> 0, drawn |-> NoIdx]

InitReservoir(ths, kinds, n) ==
    /\ threads = ths
    /\ pc = [t \in ths |-> "idle"]
    /\ loc = [t \in ths |-> NoLoc]
    /\ ret = [t \in ths |-> NoRet]
    /\ kind \in kinds
    /\ clock = 0
    /\ values = IF kind = "uniform" THEN [i \in 1..size |-> 0] ELSE <<>>
    /\ deque = <<>>
    /\ count = 0
    /\ lock = 0
    /\ start_time = 0
    /\ next_scale_time = RESCALE_THRESHOLD
    /\ budget = n
    /\ hist = <<>>
    /\ REGISTRY = [k \in {} |-> 0] /\ TAGS = [k \in {} |-> 0] /\ LOCK = 0
    /\ instruments = None
    /\ meter = None /\ mhist = None
    /\ timers = None /\ reporter_REGISTRY = None /\ rlog = None

Goto(t, label) == pc' = [pc EXCEPT ![t] = label]

AddResult(val, stored, torn) ==
    [NoRet EXCEPT !.op = "add", !.val = val, !.stored = stored, !.torn = torn]
ValuesResult(val, now) ==
    [NoRet EXCEPT !.op = "values", !.val = val, !.now = now]

InAdd(t) == loc[t].op = "add"

\* what values() called at time now returns on the contents vals
View(vals, now) ==
    IF kind = "time" THEN SlidingTime_get_values(SlidingTime_tick(vals, now).rest)
    ELSE ExpDecay_get_values(vals, Len(vals))

\* the same values the same number of times: the order of values() is not looked at
SameContents(a, b) ==
    \A v \in Vals : Cardinality({i \in 1..Len(a) : a[i] = v})
                     = Cardinality({i \in 1..Len(b) : b[i] = v})

\* an add that ran alone returns: did a values() of another thread return meanwhile
\* something that is neither the contents before the add nor the contents after it
Torn(t, after) ==
    /\ loc[t].alone
    /\ \E s \in loc[t].seen : ~SameContents(s[1], View(after, s[2]))

\* thread t starts an add
BeginAdd(t, value) ==
    loc' = [u \in threads |->
              IF u = t
              THEN [NoLoc EXCEPT !.op = "add", !.now = clock, !.value = value,
                                 !.before = values,
                                 !.alone = \A w \in threads \ {t} : ~InAdd(w)]
              ELSE IF InAdd(u) THEN [loc[u] EXCEPT !.alone = FALSE] ELSE loc[u]]

\* the threads that are in an add
Adding == {u \in threads : InAdd(u)}

\* thread t returns from a values() with val, read at time now; the call began when
\* the threads of inside were in the add they are in now
ReturnValues(t, val, now, inside) ==
    /\ pc' = [pc EXCEPT ![t] = "idle"]
    /\ ret' = [ret EXCEPT ![t] = ValuesResult(val, now)]
    /\ loc' = [u \in threads |->
                 IF u = t THEN NoLoc
                 ELSE IF u \in inside /\ ~SameContents(val, View(loc[u].before, now))
                      THEN [loc[u] EXCEPT !.seen = @ \cup {<<val, now>>}]
                      ELSE loc[u]]

\* thread t returns r from add
ReturnAdd(t, r) ==
    /\ pc' = [pc EXCEPT ![t] = "idle"]
    /\ loc' = [u \in threads |->
                 IF u = t THEN NoLoc ELSE [loc[u] EXCEPT !.inside = @ \ {t}]]
    /\ ret' = [ret EXCEPT ![t] = r]

\* the clock moves on
Advance ==
    /\ clock < MaxClock
    /\ clock' = clock + 1
    /\ UNCHANGED <<ovars, gvars, tvars, kind, values, deque, count, lock, start_time, next_scale_time,
                   budget, hist>>

----------------------------------------------------------------------------
(* ReservoirBase.add: value = float(value), before _do_add is called *)

\* faulty variant: every argument passes for a float
float_raises_never(x) == "no"

\* the error that float(x) raises, "no" when it raises none
float_raises(x) ==
    IF x.type = "NoneType" THEN "TypeError"
    ELSE IF x.type = "str" THEN "ValueError"
    ELSE "no"

\* float(x), when it raises nothing
float(x) == x.v

\* add raises err out of float(value): _do_add is not reached
AddRaises(t, err) ==
    /\ ret' = [ret EXCEPT ![t] = [NoRet EXCEPT !.op = "add_raised", !.val = err]]
    /\ budget' = budget - 1
    /\ UNCHANGED <<ovars, gvars, threads, pc, loc, kind, clock, values, deque, count, lock,
                   start_time, next_scale_time, hist>>

----------------------------------------------------------------------------
(* UniformReservoir.add and .values: add is one critical section *)

UniformAdd(t) ==
    /\ kind = "uniform" /\ pc[t] = "idle" /\ budget > 0
    /\ \E x \in Inputs :
         IF float_raises(x) # "no" THEN AddRaises(t, float_raises(x))
         ELSE \E k \in Uniform_draws(count) :
                LET r == Uniform_do_add(values, count, float(x), k) IN
                /\ values' = r.values
                /\ count' = r.count
                /\ ReturnAdd(t, [AddResult(Bool(r.changed), r.changed, FALSE)
                                   EXCEPT !.arg = float(x), !.drawn = k])
                /\ budget' = budget - 1
                /\ UNCHANGED <<ovars, gvars, threads, kind, clock, deque, lock, start_time,
                               next_scale_time, hist>>

UniformValues(t) ==
    /\ kind = "uniform" /\ pc[t] = "idle"
    /\ ReturnValues(t, Uniform_get_values(values, count), 0, Adding)
    /\ UNCHANGED <<ovars, gvars, threads, rvars>>

(* SlidingWindowReservoir.add and .values *)

SlidingWindowAdd(t) ==
    /\ kind = "sliding" /\ pc[t] = "idle" /\ budget > 0
    /\ \E x \in Inputs :
         IF float_raises(x) # "no" THEN AddRaises(t, float_raises(x))
         ELSE /\ deque' = deque_append(deque, float(x))
              /\ hist' = Append(hist, <<clock, float(x)>>)
              /\ ReturnAdd(t, AddResult(None, TRUE, FALSE))
              /\ budget' = budget - 1
              /\ UNCHANGED <<ovars, gvars, threads, kind, clock, values, count, lock, start_time,
                             next_scale_time>>

SlidingWindowValues(t) ==
    /\ kind = "sliding" /\ pc[t] = "idle"
    /\ ReturnValues(t, SlidingWindow_get_values(deque), 0, Adding)
    /\ UNCHANGED <<ovars, gvars, threads, rvars>>

----------------------------------------------------------------------------
(* SlidingTimeWindowReservoir._do_add and ._get_values *)

\* now = time.time(), in add
SlidingTimeAddCall(t) ==
    /\ kind = "time" /\ pc[t] = "idle" /\ budget > 0
    /\ \E x \in Inputs :
         IF float_raises(x) # "no" THEN AddRaises(t, float_raises(x))
         ELSE /\ BeginAdd(t, float(x))
              /\ hist' = Append(hist, <<clock, float(x)>>)
              /\ budget' = budget - 1
              /\ Goto(t, "st_tick")
              /\ UNCHANGED <<ovars, gvars, threads, ret, kind, clock, values, deque, count, lock,
                             start_time, next_scale_time>>

\* now = time.time(), in values
SlidingTimeValuesCall(t) ==
    /\ kind = "time" /\ pc[t] = "idle"
    /\ loc' = [loc EXCEPT ![t] = [NoLoc EXCEPT !.op = "values", !.now = clock,
                                                !.inside = Adding]]
    /\ Goto(t, "st_tick")
    /\ UNCHANGED <<ovars, gvars, threads, ret, rvars>>

\* with self.lock: tick(now), up to the slice self._values[idx:]
SlidingTimeTickSearch(t) ==
    /\ pc[t] = "st_tick" /\ lock = 0
    /\ lock' = t
    /\ LET r == SlidingTime_tick(values, loc[t].now) IN
       loc' = [loc EXCEPT ![t].idx = r.idx, ![t].tmp = r.rest]
    /\ Goto(t, "st_assign")
    /\ UNCHANGED <<ovars, gvars, threads, ret, kind, clock, values, deque, count, start_time,
                   next_scale_time, budget, hist>>

\* if idx: self._values = <the slice>; the lock is released
SlidingTimeTickAssign(t) ==
    /\ pc[t] = "st_assign"
    /\ values' = IF loc[t].idx # 0 THEN loc[t].tmp ELSE values
    /\ lock' = 0
    /\ loc' = [loc EXCEPT ![t].idx = 0, ![t].tmp = <<>>]
    /\ Goto(t, IF loc[t].op = "add" THEN "st_append" ELSE "st_read")
    /\ UNCHANGED <<ovars, gvars, threads, ret, kind, clock, deque, count, start_time, next_scale_time,
                   budget, hist>>

\* self._values.append((now, value)), outside the lock; _do_add returns nothing
SlidingTimeAppend(t) ==
    /\ pc[t] = "st_append"
    /\ values' = Append(values, <<loc[t].now, loc[t].value>>)
    /\ ReturnAdd(t, AddResult(None, TRUE, Torn(t, values')))
    /\ UNCHANGED <<ovars, gvars, threads, kind, clock, deque, count, lock, start_time, next_scale_time,
                   budget, hist>>

\* return [y for x, y in self._values]
SlidingTimeRead(t) ==
    /\ pc[t] = "st_read"
    /\ ReturnValues(t, SlidingTime_get_values(values), loc[t].now, loc[t].inside)
    /\ UNCHANGED <<ovars, gvars, threads, rvars>>

----------------------------------------------------------------------------
(* ExponentialDecayingReservoir._do_add, .rescale and ._get_values *)

\* now = time.time(), in add
ExpDecayAddCall(t) ==
    /\ kind = "exp" /\ pc[t] = "idle" /\ budget > 0
    /\ \E x \in Inputs :
         IF float_raises(x) # "no" THEN AddRaises(t, float_raises(x))
         ELSE /\ BeginAdd(t, float(x))
              /\ budget' = budget - 1
              /\ Goto(t, "ed_rescale")
              /\ UNCHANGED <<ovars, gvars, threads, ret, kind, clock, values, deque, count, lock,
                             start_time, next_scale_time, hist>>

\* rescale(now): with self.lock; when now > next_scale_time the list is copied and emptied
ExpDecayRescaleEnter(t) ==
    /\ pc[t] = "ed_rescale" /\ lock = 0
    /\ IF loc[t].now > next_scale_time
       THEN /\ lock' = t
            /\ loc' = [loc EXCEPT ![t].tmp = values, ![t].i = 1]
            /\ values' = <<>>
            /\ Goto(t, "ed_rescale_loop")
       ELSE /\ Goto(t, "ed_weight")
            /\ UNCHANGED <<lock, loc, values>>
    /\ UNCHANGED <<ovars, gvars, threads, ret, kind, clock, deque, count, start_time, next_scale_time,
                   budget, hist>>

\* one turn of the loop: k *= exp(-alpha * (now - start_time)); self._put(k, v)
ExpDecayRescalePut(t) ==
    /\ pc[t] = "ed_rescale_loop" /\ loc[t].i <= Len(loc[t].tmp)
    /\ LET kv == loc[t].tmp[loc[t].i]
           k == scaled(kv[1], loc[t].now - start_time)
       IN values' = ExpDecay_put(values, k, kv[2])
    /\ loc' = [loc EXCEPT ![t].i = @ + 1]
    /\ UNCHANGED <<ovars, gvars, threads, pc, ret, kind, clock, deque, count, lock, start_time,
                   next_scale_time, budget, hist>>

\* after the loop: count, start_time and next_scale_time are set, the lock is released
ExpDecayRescaleExit(t) ==
    /\ pc[t] = "ed_rescale_loop" /\ loc[t].i > Len(loc[t].tmp)
    /\ count' = Len(values)
    /\ start_time' = loc[t].now
    /\ next_scale_time' = loc[t].now + RESCALE_THRESHOLD
    /\ lock' = 0
    /\ loc' = [loc EXCEPT ![t].tmp = <<>>, ![t].i = 0]
    /\ Goto(t, "ed_weight")
    /\ UNCHANGED <<ovars, gvars, threads, ret, kind, clock, values, deque, budget, hist>>

\* rnd = random.random(); weighted_time = self.weight(now - self.start_time) / rnd
ExpDecayWeight(t) ==
    /\ pc[t] = "ed_weight"
    /\ \E rnd \in 1..RndMax :
         loc' = [loc EXCEPT ![t].wt = weighted(loc[t].now - start_time, rnd)]
    /\ Goto(t, "ed_admit")
    /\ UNCHANGED <<ovars, gvars, threads, ret, rvars>>

\* with self.lock: the sample is put, or replaces the first entry, or is dropped
ExpDecayAdmit(t) ==
    /\ pc[t] = "ed_admit" /\ lock = 0
    /\ lock' = t
    /\ LET r == ExpDecay_admit(values, count, loc[t].wt, loc[t].value) IN
         /\ values' = r.values
         /\ loc' = [loc EXCEPT ![t].changed = r.changed]
    /\ Goto(t, "ed_sort")
    /\ UNCHANGED <<ovars, gvars, threads, ret, kind, clock, deque, count, start_time, next_scale_time,
                   budget, hist>>

\* self._values.sort(key=self.key) when changed; self.count += 1; the lock is released
ExpDecaySort(t) ==
    /\ pc[t] = "ed_sort"
    /\ values' = IF loc[t].changed THEN sort_by_key(values) ELSE values
    /\ count' = count + 1
    /\ lock' = 0
    /\ ReturnAdd(t, AddResult(Bool(loc[t].changed), loc[t].changed, Torn(t, values')))
    /\ UNCHANGED <<ovars, gvars, threads, kind, clock, deque, start_time, next_scale_time, budget, hist>>

\* values: no lock is taken
ExpDecayValues(t) ==
    /\ kind = "exp" /\ pc[t] = "idle"
    /\ ReturnValues(t, ExpDecay_get_values(values, count), 0, Adding)
    /\ UNCHANGED <<ovars, gvars, threads, rvars>>

----------------------------------------------------------------------------
(* Specifications of the reservoirs *)

NextTimed ==
    \/ Advance
    \/ \E t \in threads : SlidingTimeAddCall(t)
    \/ \E t \in threads : SlidingTimeValuesCall(t)
    \/ \E t \in threads : SlidingTimeTickSearch(t)
    \/ \E t \in threads : SlidingTimeTickAssign(t)
    \/ \E t \in threads : SlidingTimeAppend(t)
    \/ \E t \in threads : SlidingTimeRead(t)
    \/ \E t \in threads : ExpDecayAddCall(t)
    \/ \E t \in threads : ExpDecayRescaleEnter(t)
    \/ \E t \in threads : ExpDecayRescalePut(t)
    \/ \E t \in threads : ExpDecayRescaleExit(t)
    \/ \E t \in threads : ExpDecayWeight(t)
    \/ \E t \in threads : ExpDecayAdmit(t)
    \/ \E t \in threads : ExpDecaySort(t)
    \/ \E t \in threads : ExpDecayValues(t)

NextReservoir ==
    \/ \E t \in threads : UniformAdd(t)
    \/ \E t \in threads : UniformValues(t)
    \/ \E t \in threads : SlidingWindowAdd(t)
    \/ \E t \in threads : SlidingWindowValues(t)
    \/ NextTimed

\* one caller, any of the four reservoirs
InitOneCaller == InitReservoir({1}, {"uniform", "sliding", "time", "exp"}, MaxAdds)

SpecReservoir == InitOneCaller /\ [][NextReservoir]_vars

\* several callers of a reservoir that is kept by time
InitCallers == InitReservoir(AllThreads, {"time", "exp"}, MaxCallerAdds)

SpecCallers == InitCallers /\ [][NextTimed]_vars

\* one caller of a Uniform reservoir
NextUniform ==
    \/ \E t \in threads : UniformAdd(t)
    \/ \E t \in threads : UniformValues(t)

InitUniform == InitReservoir({1}, {"uniform"}, MaxAdds + 2)

SpecUniform == InitUniform /\ [][NextUniform]_vars

\* one caller of an ExponentialDecay reservoir
NextExpDecay ==
    \/ Advance
    \/ \E t \in threads : ExpDecayAddCall(t)
    \/ \E t \in threads : ExpDecayRescaleEnter(t)
    \/ \E t \in threads : ExpDecayRescalePut(t)
    \/ \E t \in threads : ExpDecayRescaleExit(t)
    \/ \E t \in threads : ExpDecayWeight(t)
    \/ \E t \in threads : ExpDecayAdmit(t)
    \/ \E t \in threads : ExpDecaySort(t)
    \/ \E t \in threads : ExpDecayValues(t)

InitExpDecay == InitReservoir({1}, {"exp"}, MaxAdds)

SpecExpDecay == InitExpDecay /\ [][NextExpDecay]_vars

----------------------------------------------------------------------------
(* metrics.py: the registry. REGISTRY and TAGS are dicts: functions whose domain is
   the set of keys. An instrument is a number that no instrument of the registry
   has when it is built; 0 stands for None. A set yields its names in the order of
   NameOrder, the order of their slots.
   metrics_by_tag writes nothing that is shared, so one reading thread shows all
   that a reader can meet. *)

NameOrder == <<"a", "b">>
Names == {NameOrder[i] : i \in DOMAIN NameOrder}
TagNames == 1..NTags
\* the thread that reads: the first one
Reader == CHOOSE t \in AllThreads : \A u \in AllThreads : t <= u

EmptyDict == [k \in {} |-> 0]

\* d[k] = v
Store(d, k, v) == [x \in DOMAIN d \cup {k} |-> IF x = k THEN v ELSE d[x]]

\* faulty variant: the key is not taken out
Pop_nothing(d, k) == d

\* d.pop(k, None): the dict that is left
Pop(d, k) == [x \in DOMAIN d \ {k} |-> d[x]]

\* d.get(k, None), for a dict of sets: "not" does not tell None from the empty set
Get(d, k) == IF k \in DOMAIN d THEN d[k] ELSE {}

\* faulty variant: a name is never found in the registry
registered_never(reg, name) == FALSE

\* new_metric: does REGISTRY[name] succeed
registered(reg, name) == name \in DOMAIN reg

\* class_(*args, **kwargs): a new instrument, that is none of those of reg
fresh(reg) ==
    CHOOSE i \in 1..(Cardinality(DOMAIN reg) + 1) : \A k \in DOMAIN reg : reg[k] # i

\* faulty variant: a name that is not registered yields an instrument
metric_of_any(reg, name) == IF name \in DOMAIN reg THEN reg[name] ELSE 1

\* metric(name): the instrument, 0 when InvalidMetricError is raised
metric(reg, name) == IF name \in DOMAIN reg THEN reg[name] ELSE 0

\* faulty variant: the lock is taken without waiting for it
Acquire_unheld(t) == LOCK' = t

\* with LOCK: entered by t
Acquire(t) == LOCK = 0 /\ LOCK' = t

\* faulty variant: the name stays in the set
discard_nothing(tags, name) == tags

\* if name in tags: tags.remove(name)
discard(tags, name) == tags \ {name}

\* the locals of a call of the registry. For metrics_by_tag: used and pos are the
\* fields of the set iterator, and detached tells that the set it reads has been
\* popped from TAGS (it is empty from then on), and tagged collects the names that
\* the set held at any time of the call. For delete_metric: had, the tags that
\* held the name when it was popped. cls and reservoir are the class_ and the argument
\* given to new_metric: a Counter, unless the call makes a histogram. For notify and
\* timer: item is the instrument the call holds, detached tells that it has been
\* deleted from REGISTRY since, and held is what the instrument was when deleted.
NoCall == [op |-> "none", name |-> "", tag |-> 0, item |-> 0, i |-> 0, used |-> 0,
           pos |-> 0, results |-> {}, detached |-> FALSE, tagged |-> {}, had |-> {},
           cls |-> "Counter", reservoir |-> None, held |-> None]

\* what the step that led to the state returned or raised, when it ended a call; found
\* tells that the instrument returned was taken from REGISTRY, not built by the call
NoResult == [op |-> "none", name |-> "", tag |-> 0, val |-> None, item |-> 0,
             had |-> {}, keys |-> {}, tagged |-> {}, found |-> FALSE]

Result(op, name, tag, val) ==
    [NoResult EXCEPT !.op = op, !.name = name, !.tag = tag, !.val = val]

InitRegistry ==
    /\ threads = AllThreads
    /\ pc = [t \in threads |-> "idle"]
    /\ loc = [t \in threads |-> NoCall]
    /\ ret = [t \in threads |-> NoResult]
    /\ kind = "none" /\ clock = 0 /\ values = <<>> /\ deque = <<>> /\ count = 0
    /\ lock = 0 /\ start_time = 0 /\ next_scale_time = 0 /\ budget = 0 /\ hist = <<>>
    /\ REGISTRY = EmptyDict
    /\ TAGS = EmptyDict
    /\ LOCK = 0
    /\ instruments = EmptyDict
    /\ meter = None /\ mhist = None
    /\ timers = None /\ reporter_REGISTRY = None /\ rlog = None

\* a step that ends no call
NoReturn == ret' = [u \in threads |-> NoResult]

\* thread t calls op
Call(t, op, name, tag, label) ==
    /\ pc[t] = "idle"
    /\ pc' = [pc EXCEPT ![t] = label]
    /\ loc' = [loc EXCEPT ![t] = [NoCall EXCEPT !.op = op, !.name = name, !.tag = tag]]
    /\ NoReturn

\* thread t goes on to label
Step(t, label) == Goto(t, label) /\ NoReturn

\* thread t returns or raises r
Return(t, r) ==
    /\ pc' = [pc EXCEPT ![t] = "idle"]
    /\ ret' = [u \in threads |-> IF u = t THEN r ELSE NoResult]

\* the set that the iterator of t reads
Live(t) == IF loc[t].detached THEN {} ELSE TAGS[loc[t].tag]

\* the threads that hold the set of tag
Readers(tag) ==
    {u \in threads : loc[u].op = "metrics_by_tag" /\ loc[u].tag = tag /\ ~loc[u].detached}

\* class_(*args, **kwargs): an instrument that was notified nothing yet
Instrument(cls, reservoir) == [cls |-> cls, reservoir |-> reservoir, n |-> 0]

\* the reservoirs that a histogram is asked with: (type, size)
Reservoirs ==
    {[type |-> "uniform", size |-> 1], [type |-> "uniform", size |-> 2],
     [type |-> "sliding_window", size |-> 1]}

\* faulty variant: the type alone is compared
same_type(self, other) == self.type = other.type

\* ReservoirBase.same_kind: type(self) is type(other) and self._same_parameters(other)
same_kind(self, other) == self.type = other.type /\ self.size = other.size

\* the threads whose call holds instrument i: taken from REGISTRY and not yet used
Holders(i) ==
    {u \in threads : /\ pc[u] \in {"nf_notify", "tm_block", "tm_notify"}
                     /\ loc[u].item = i /\ ~loc[u].detached}

\* new_metric or get_or_create_histogram has instrument i in hand: it returns it, and
\* timer goes on with it
Got(t, i) ==
    IF loc[t].op = "timer"
    THEN /\ Step(t, "tm_block")
         /\ loc' = [loc EXCEPT ![t].item = i]
    ELSE /\ Return(t, [Result(loc[t].op, loc[t].name, 0, "ok")
                          EXCEPT !.item = i, !.found = (pc[t] = "gc_metric")])
         /\ loc' = [loc EXCEPT ![t] = NoCall]

\* thread t raises err out of its call
Raise(t, err) ==
    /\ Return(t, Result(loc[t].op, loc[t].name, loc[t].tag, err))
    /\ loc' = [loc EXCEPT ![t] = NoCall]

(* new_metric *)

NewMetricEnter(t) ==
    /\ \E name \in Names : Call(t, "new_metric", name, 0, "nm_lookup")
    /\ Acquire(t)
    /\ UNCHANGED <<ovars, threads, rvars, REGISTRY, TAGS, instruments>>

\* try: item = REGISTRY[name]; when it is there the lock is left and the error raised,
\* which get_or_create_histogram catches
NewMetricLookup(t) ==
    /\ pc[t] = "nm_lookup"
    /\ IF registered(REGISTRY, loc[t].name)
       THEN /\ LOCK' = 0
            /\ IF loc[t].op = "new_metric"
               THEN /\ Return(t, [Result("new_metric", loc[t].name, 0, "DuplicateMetricError")
                                     EXCEPT !.item = REGISTRY[loc[t].name]])
                    /\ loc' = [loc EXCEPT ![t] = NoCall]
               ELSE /\ Step(t, "gc_metric")
                    /\ UNCHANGED loc
       ELSE /\ Step(t, "nm_store")
            /\ UNCHANGED <<loc, LOCK>>
    /\ UNCHANGED <<ovars, threads, rvars, REGISTRY, TAGS, instruments>>

\* except KeyError: item = REGISTRY[name] = class_(...); return item
NewMetricStore(t) ==
    /\ pc[t] = "nm_store"
    /\ REGISTRY' = Store(REGISTRY, loc[t].name, fresh(REGISTRY))
    /\ instruments' = Store(instruments, fresh(REGISTRY),
                            Instrument(loc[t].cls, loc[t].reservoir))
    /\ LOCK' = 0
    /\ Got(t, fresh(REGISTRY))
    /\ UNCHANGED <<ovars, threads, rvars, TAGS>>

(* delete_metric *)

DeleteMetricEnter(t) ==
    /\ \E name \in Names : Call(t, "delete_metric", name, 0, "dm_pop")
    /\ Acquire(t)
    /\ UNCHANGED <<ovars, threads, rvars, REGISTRY, TAGS, instruments>>

\* old_metric = REGISTRY.pop(name, None)
DeleteMetricPop(t) ==
    /\ pc[t] = "dm_pop"
    /\ REGISTRY' = Pop(REGISTRY, loc[t].name)
    /\ instruments' = Pop(instruments, metric(REGISTRY, loc[t].name))
    /\ loc' = [u \in threads |->
                 IF u = t
                 THEN [loc[t] EXCEPT !.item = metric(REGISTRY, loc[t].name),
                                     !.i = 1,
                                     !.had = {g \in DOMAIN TAGS : loc[t].name \in TAGS[g]}]
                 ELSE IF u \in Holders(metric(REGISTRY, loc[t].name))
                      THEN [loc[u] EXCEPT !.detached = TRUE,
                                          !.held = instruments[loc[u].item]]
                      ELSE loc[u]]
    /\ Step(t, "dm_tags")
    /\ UNCHANGED <<ovars, threads, rvars, TAGS, LOCK>>

\* the tags that the loop of thread t has still to visit
ToVisit(t) == {g \in DOMAIN TAGS : g >= loc[t].i}

\* one turn of: for _, tags in iteritems(TAGS)
DeleteMetricPurge(t) ==
    /\ pc[t] = "dm_tags" /\ ToVisit(t) # {}
    /\ LET g == CHOOSE x \in ToVisit(t) : \A y \in ToVisit(t) : x <= y IN
       /\ TAGS' = Store(TAGS, g, discard(TAGS[g], loc[t].name))
       /\ loc' = [loc EXCEPT ![t].i = g + 1]
    /\ NoReturn
    /\ UNCHANGED <<ovars, threads, pc, rvars, REGISTRY, LOCK, instruments>>

\* the lock is left; return old_metric
DeleteMetricExit(t) ==
    /\ pc[t] = "dm_tags" /\ ToVisit(t) = {}
    /\ LOCK' = 0
    /\ Return(t, [Result("delete_metric", loc[t].name, 0, "ok")
                     EXCEPT !.item = loc[t].item, !.had = loc[t].had])
    /\ loc' = [loc EXCEPT ![t] = NoCall]
    /\ UNCHANGED <<ovars, threads, rvars, REGISTRY, TAGS, instruments>>

(* tag *)

TagEnter(t) ==
    /\ \E name \in Names, tag_name \in TagNames : Call(t, "tag", name, tag_name, "tg_check")
    /\ Acquire(t)
    /\ UNCHANGED <<ovars, threads, rvars, REGISTRY, TAGS, instruments>>

\* metric(name), that raises InvalidMetricError through the with block
TagCheck(t) ==
    /\ pc[t] = "tg_check"
    /\ IF metric(REGISTRY, loc[t].name) = 0
       THEN /\ LOCK' = 0
            /\ Return(t, Result("tag", loc[t].name, loc[t].tag, "InvalidMetricError"))
            /\ loc' = [loc EXCEPT ![t] = NoCall]
       ELSE /\ Step(t, "tg_add")
            /\ UNCHANGED <<loc, LOCK>>
    /\ UNCHANGED <<ovars, threads, rvars, REGISTRY, TAGS, instruments>>

\* TAGS.setdefault(tag_name, set()).add(name)
TagAdd(t) ==
    /\ pc[t] = "tg_add"
    /\ TAGS' = Store(TAGS, loc[t].tag, Get(TAGS, loc[t].tag) \cup {loc[t].name})
    /\ LOCK' = 0
    /\ Return(t, Result("tag", loc[t].name, loc[t].tag, None))
    /\ loc' = [u \in threads |->
                 IF u = t THEN NoCall
                 ELSE IF u \in Readers(loc[t].tag)
                      THEN [loc[u] EXCEPT !.tagged = @ \cup {loc[t].name}]
                      ELSE loc[u]]
    /\ UNCHANGED <<ovars, threads, rvars, REGISTRY, instruments>>

(* untag *)

UntagEnter(t) ==
    /\ \E name \in Names, tag_name \in TagNames : Call(t, "untag", name, tag_name, "ut_get")
    /\ Acquire(t)
    /\ UNCHANGED <<ovars, threads, rvars, REGISTRY, TAGS, instruments>>

\* by_tag = TAGS.get(tag_name, None); if not by_tag: return False
UntagGet(t) ==
    /\ pc[t] = "ut_get"
    /\ IF Get(TAGS, loc[t].tag) = {}
       THEN /\ LOCK' = 0
            /\ Return(t, Result("untag", loc[t].name, loc[t].tag, Bool(FALSE)))
            /\ loc' = [loc EXCEPT ![t] = NoCall]
       ELSE /\ Step(t, "ut_remove")
            /\ UNCHANGED <<loc, LOCK>>
    /\ UNCHANGED <<ovars, threads, rvars, REGISTRY, TAGS, instruments>>

\* by_tag.remove(name), the tag popped when no name is left; KeyError gives False
UntagRemove(t) ==
    /\ pc[t] = "ut_remove"
    /\ LET by_tag == TAGS[loc[t].tag]
           left == by_tag \ {loc[t].name}
           found == loc[t].name \in by_tag
       IN /\ TAGS' = IF ~found THEN TAGS
                     ELSE IF left = {} THEN Pop(TAGS, loc[t].tag)
                     ELSE Store(TAGS, loc[t].tag, left)
          /\ Return(t, Result("untag", loc[t].name, loc[t].tag, Bool(found)))
          /\ loc' = [u \in threads |->
                       IF u = t THEN NoCall
                       ELSE IF found /\ left = {} /\ u \in Readers(loc[t].tag)
                            THEN [loc[u] EXCEPT !.detached = TRUE]
                            ELSE loc[u]]
    /\ LOCK' = 0
    /\ UNCHANGED <<ovars, threads, rvars, REGISTRY, instruments>>

(* notify *)

\* the instrument of name, if any, has not been notified MaxNotify values yet
Notifiable(name) ==
    name \in DOMAIN REGISTRY => instruments[REGISTRY[name]].n < MaxNotify

\* metric(name), no lock being taken: InvalidMetricError, or the instrument. One
\* thread notifies: an instrument counts its values whoever notifies them
NotifyLookup(t) ==
    /\ t = Reader /\ pc[t] = "idle"
    /\ \E name \in Names :
         LET i == metric(REGISTRY, name) IN
         IF i = 0
         THEN /\ Return(t, Result("notify", name, 0, "InvalidMetricError"))
              /\ UNCHANGED loc
         ELSE /\ Notifiable(name)
              /\ loc' = [loc EXCEPT ![t] = [NoCall EXCEPT !.op = "notify", !.name = name,
                                                          !.item = i]]
              /\ Step(t, "nf_notify")
    /\ UNCHANGED <<ovars, threads, rvars, gvars>>

\* the instrument that thread t holds is notified one value
Notified(t) ==
    IF loc[t].detached THEN instruments
    ELSE [instruments EXCEPT ![loc[t].item].n = @ + 1]

\* .notify(value), on the instrument that was found
NotifyInstrument(t) ==
    /\ pc[t] = "nf_notify"
    /\ instruments' = Notified(t)
    /\ Return(t, [Result("notify", loc[t].name, 0, None) EXCEPT !.item = loc[t].item])
    /\ loc' = [loc EXCEPT ![t] = NoCall]
    /\ UNCHANGED <<ovars, threads, rvars, REGISTRY, TAGS, LOCK>>

(* get_or_create_histogram *)

\* reservoir = new_reservoir(...); new_histogram(name, reservoir), that enters new_metric
GetOrCreateHistogramEnter(t) ==
    /\ pc[t] = "idle"
    /\ \E name \in Names, reservoir \in Reservoirs :
         loc' = [loc EXCEPT ![t] = [NoCall EXCEPT !.op = "get_or_create_histogram",
                                                     !.name = name, !.cls = "Histogram",
                                                     !.reservoir = reservoir]]
    /\ Step(t, "nm_lookup")
    /\ Acquire(t)
    /\ UNCHANGED <<ovars, threads, rvars, REGISTRY, TAGS, instruments>>

\* except DuplicateMetricError: hmetric = metric(name), outside the lock; it is
\* returned when it is a Histogram whose reservoir is of the same kind
GetOrCreateHistogramMetric(t) ==
    /\ pc[t] = "gc_metric"
    /\ LET hmetric == metric(REGISTRY, loc[t].name) IN
       IF hmetric = 0 THEN Raise(t, "InvalidMetricError")
       ELSE IF instruments[hmetric].cls # "Histogram" THEN Raise(t, "DuplicateMetricError")
       ELSE IF ~same_kind(instruments[hmetric].reservoir, loc[t].reservoir)
            THEN Raise(t, "DuplicateMetricError")
       ELSE Got(t, hmetric)
    /\ UNCHANGED <<ovars, threads, rvars, gvars>>

(* timer: a context manager made of a generator with one yield *)

\* hmetric = get_or_create_histogram(name, reservoir_type, ...)
ScopedTimerEnter(t) ==
    /\ pc[t] = "idle"
    /\ \E name \in Names, reservoir \in Reservoirs :
         /\ Notifiable(name)
         /\ loc' = [loc EXCEPT ![t] = [NoCall EXCEPT !.op = "timer", !.name = name,
                                                        !.cls = "Histogram",
                                                        !.reservoir = reservoir]]
    /\ Step(t, "nm_lookup")
    /\ Acquire(t)
    /\ UNCHANGED <<ovars, threads, rvars, REGISTRY, TAGS, instruments>>

\* t1 = time.time(); yield: the block of the with statement runs. When it raises, the
\* error is thrown into the generator at the yield, and leaves it
ScopedTimerBlock(t) ==
    /\ pc[t] = "tm_block"
    /\ \E outcome \in Outcomes :
         IF outcome = "raises"
         THEN /\ Return(t, [Result("timer", loc[t].name, 0, "raised")
                               EXCEPT !.item = loc[t].item])
              /\ loc' = [loc EXCEPT ![t] = NoCall]
         ELSE /\ Step(t, "tm_notify")
              /\ UNCHANGED loc
    /\ UNCHANGED <<ovars, threads, rvars, gvars>>

\* t2 = time.time(); hmetric.notify(t2 - t1)
ScopedTimerNotify(t) ==
    /\ pc[t] = "tm_notify"
    /\ instruments' = Notified(t)
    /\ Return(t, [Result("timer", loc[t].name, 0, "ok") EXCEPT !.item = loc[t].item])
    /\ loc' = [loc EXCEPT ![t] = NoCall]
    /\ UNCHANGED <<ovars, threads, rvars, REGISTRY, TAGS, LOCK>>

(* metrics_by_tag and metrics_by_name_list: no lock is taken *)

\* try: names = TAGS[tag_name]; except KeyError: return {}
MetricsByTagLookup(t) ==
    /\ t = Reader /\ pc[t] = "idle"
    /\ \E tag_name \in TagNames :
         IF tag_name \in DOMAIN TAGS
         THEN /\ pc' = [pc EXCEPT ![t] = "mb_iter"]
              /\ loc' = [loc EXCEPT ![t] = [NoCall EXCEPT !.op = "metrics_by_tag",
                                                          !.tag = tag_name,
                                                          !.tagged = TAGS[tag_name]]]
              /\ NoReturn
         ELSE /\ Return(t, Result("metrics_by_tag", "", tag_name, "ok"))
              /\ UNCHANGED loc
    /\ UNCHANGED <<ovars, threads, rvars, gvars>>

\* for name in names: the iterator is made and remembers the size of the set
MetricsByTagIter(t) ==
    /\ pc[t] = "mb_iter"
    /\ loc' = [loc EXCEPT ![t].used = Cardinality(Live(t)), ![t].pos = 0]
    /\ Step(t, "mb_next")
    /\ UNCHANGED <<ovars, threads, rvars, gvars>>

\* next(iterator): RuntimeError when the size of the set is not the remembered one,
\* else the next name, else the end of the loop and return results
MetricsByTagNext(t) ==
    /\ pc[t] = "mb_next"
    /\ LET names == Live(t)
           rest == {i \in DOMAIN NameOrder : i > loc[t].pos /\ NameOrder[i] \in names}
       IN IF Cardinality(names) # loc[t].used
          THEN /\ Return(t, [Result("metrics_by_tag", "", loc[t].tag, "RuntimeError")
                                EXCEPT !.keys = loc[t].results, !.tagged = loc[t].tagged])
               /\ loc' = [loc EXCEPT ![t] = NoCall]
          ELSE IF rest = {}
          THEN /\ Return(t, [Result("metrics_by_tag", "", loc[t].tag, "ok")
                                EXCEPT !.keys = loc[t].results, !.tagged = loc[t].tagged])
               /\ loc' = [loc EXCEPT ![t] = NoCall]
          ELSE /\ loc' = [loc EXCEPT ![t].pos = CHOOSE n \in rest : \A m \in rest : n <= m]
               /\ Step(t, "mb_get")
    /\ UNCHANGED <<ovars, threads, rvars, gvars>>

\* try: results[name] = get(name); except InvalidMetricError: continue
MetricsByTagGet(t) ==
    /\ pc[t] = "mb_get"
    /\ loc' = [loc EXCEPT ![t].results =
                 IF metric(REGISTRY, NameOrder[loc[t].pos]) = 0 THEN @
                 ELSE @ \cup {NameOrder[loc[t].pos]}]
    /\ Step(t, "mb_next")
    /\ UNCHANGED <<ovars, threads, rvars, gvars>>

NextRegistry ==
    \/ \E t \in threads : NewMetricEnter(t)
    \/ \E t \in threads : NewMetricLookup(t)
    \/ \E t \in threads : NewMetricStore(t)
    \/ \E t \in threads : DeleteMetricEnter(t)
    \/ \E t \in threads : DeleteMetricPop(t)
    \/ \E t \in threads : DeleteMetricPurge(t)
    \/ \E t \in threads : DeleteMetricExit(t)
    \/ \E t \in threads : TagEnter(t)
    \/ \E t \in threads : TagCheck(t)
    \/ \E t \in threads : TagAdd(t)
    \/ \E t \in threads : UntagEnter(t)
    \/ \E t \in threads : UntagGet(t)
    \/ \E t \in threads : UntagRemove(t)
    \/ \E t \in threads : MetricsByTagLookup(t)
    \/ \E t \in threads : MetricsByTagIter(t)
    \/ \E t \in threads : MetricsByTagNext(t)
    \/ \E t \in threads : MetricsByTagGet(t)

SpecRegistry == InitRegistry /\ [][NextRegistry]_vars

\* the calls that write the registry and the tags, all of them under LOCK
NextTags ==
    \/ \E t \in threads : NewMetricEnter(t)
    \/ \E t \in threads : NewMetricLookup(t)
    \/ \E t \in threads : NewMetricStore(t)
    \/ \E t \in threads : DeleteMetricEnter(t)
    \/ \E t \in threads : DeleteMetricPop(t)
    \/ \E t \in threads : DeleteMetricPurge(t)
    \/ \E t \in threads : DeleteMetricExit(t)
    \/ \E t \in threads : TagEnter(t)
    \/ \E t \in threads : TagCheck(t)
    \/ \E t \in threads : TagAdd(t)
    \/ \E t \in threads : UntagEnter(t)
    \/ \E t \in threads : UntagGet(t)
    \/ \E t \in threads : UntagRemove(t)

SpecTags == InitRegistry /\ [][NextTags]_vars

\* the calls that make, tag, notify and delete instruments
NextInstruments ==
    \/ \E t \in threads : NewMetricEnter(t)
    \/ \E t \in threads : NewMetricLookup(t)
    \/ \E t \in threads : NewMetricStore(t)
    \/ \E t \in threads : DeleteMetricEnter(t)
    \/ \E t \in threads : DeleteMetricPop(t)
    \/ \E t \in threads : DeleteMetricPurge(t)
    \/ \E t \in threads : DeleteMetricExit(t)
    \/ \E t \in threads : TagEnter(t)
    \/ \E t \in threads : TagCheck(t)
    \/ \E t \in threads : TagAdd(t)
    \/ \E t \in threads : NotifyLookup(t)
    \/ \E t \in threads : NotifyInstrument(t)

SpecInstruments == InitRegistry /\ [][NextInstruments]_vars

\* the calls that make and delete instruments, histograms among them; no name is
\* tagged, so the loop of delete_metric has no turn
NextHistograms ==
    \/ \E t \in threads : NewMetricEnter(t)
    \/ \E t \in threads : NewMetricLookup(t)
    \/ \E t \in threads : NewMetricStore(t)
    \/ \E t \in threads : DeleteMetricEnter(t)
    \/ \E t \in threads : DeleteMetricPop(t)
    \/ \E t \in threads : DeleteMetricExit(t)
    \/ \E t \in threads : GetOrCreateHistogramEnter(t)
    \/ \E t \in threads : GetOrCreateHistogramMetric(t)

SpecHistograms == InitRegistry /\ [][NextHistograms]_vars

\* the calls that make and delete instruments, and the timers of blocks
NextScopedTimer ==
    \/ \E t \in threads : NewMetricEnter(t)
    \/ \E t \in threads : NewMetricLookup(t)
    \/ \E t \in threads : NewMetricStore(t)
    \/ \E t \in threads : DeleteMetricEnter(t)
    \/ \E t \in threads : DeleteMetricPop(t)
    \/ \E t \in threads : DeleteMetricExit(t)
    \/ \E t \in threads : GetOrCreateHistogramMetric(t)
    \/ \E t \in threads : ScopedTimerEnter(t)
    \/ \E t \in threads : ScopedTimerBlock(t)
    \/ \E t \in threads : ScopedTimerNotify(t)

SpecScopedTimer == InitRegistry /\ [][NextScopedTimer]_vars

-----------------------------------------------------------------------------
(* meter.py: Meter.notify, Meter.get, Meter.tick, Meter.tick_all, EWMA.update and
   EWMA.tick, one step for each read or write of the meter that another thread could
   run between *)

\* the locals of a call of notify or get: now, elapsed and ticks are those of tick();
\* i and j are the loop variables of tick_all and of notify; instant_rate is that of
\* EWMA.tick; tmp is self.count as read by self.count += value. On entry to tick(),
\* ticked0 and latest0 are the number of ticks made so far and self.latest_tick.
NoMeterCall ==
    [op |-> "none", value |-> 0, now |-> 0, elapsed |-> 0, ticks |-> 0, i |-> 0, j |-> 0,
     read |-> 0, tmp |-> 0, ticked0 |-> [k \in AvgIdx |-> 0], latest0 |-> 0]

\* what a call returned or raised: for get, the fields of the dict it returned, whether
\* nothing had been notified yet, and the time since the meter was made
NoMeterResult ==
    [op |-> "none", val |-> None, count |-> 0, mean |-> 0, rates |-> [k \in AvgIdx |-> 0],
     unused |-> FALSE, elapsed |-> 0, observed |-> <<>>]

InitMeter ==
    /\ threads = AllThreads
    /\ pc = [t \in threads |-> "idle"]
    /\ loc = [t \in threads |-> NoMeterCall]
    /\ ret = [t \in threads |-> NoMeterResult]
    /\ kind = "none" /\ clock = 0 /\ values = <<>> /\ deque = <<>> /\ count = 0
    /\ lock = 0 /\ start_time = 0 /\ next_scale_time = 0 /\ budget = 0 /\ hist = <<>>
    /\ REGISTRY = [k \in {} |-> 0] /\ TAGS = [k \in {} |-> 0] /\ LOCK = 0
    /\ instruments = None
    /\ meter = Meter_init(clock)
    /\ mhist = NoObservations
    /\ timers = None /\ reporter_REGISTRY = None /\ rlog = None

\* a step of the meter that ends no call
MeterStep(t, label) ==
    /\ pc' = [pc EXCEPT ![t] = label]
    /\ ret' = [u \in threads |-> NoMeterResult]

\* a step of the meter that ends the call of t
MeterReturn(t, result) ==
    /\ pc' = [pc EXCEPT ![t] = "idle"]
    /\ loc' = [loc EXCEPT ![t] = NoMeterCall]
    /\ ret' = [u \in threads |-> IF u = t THEN result ELSE NoMeterResult]

\* faulty variant: the lock is taken without waiting for its holder
MeterAcquire_unheld(t) == TRUE

\* with self.lock: the caller waits until the lock is free
MeterAcquire(t) == meter.lock = 0

\* faulty variant: a tick is also made when exactly tick_interval has elapsed
tick_due_at_interval(elapsed) == elapsed >= tick_interval

\* if elapsed > self.tick_interval
tick_due(elapsed) == elapsed > tick_interval

\* faulty variant: an interval that has begun counts for a tick
ticks_for_rounded_up(elapsed) == (elapsed + tick_interval - 1) \div tick_interval

\* int(elapsed / self.tick_interval), elapsed being positive
ticks_for(elapsed) == elapsed \div tick_interval

\* float(self.value) / float(self.tick_interval)
instant_rate_of(value) == (value * RateScale) \div tick_interval

\* faulty variant: the rate is set to the instant rate at every tick
decayed_to_instant(rate, alpha, instant_rate) == instant_rate

\* self.rate + self.alpha * (instant_rate - self.rate)
decayed(rate, alpha, instant_rate) == rate + (alpha * (instant_rate - rate)) \div AlphaScale

\* notify(value): with self.lock
MeterNotifyEnter(t) ==
    /\ pc[t] = "idle" /\ mhist.left > 0
    /\ MeterAcquire(t)
    /\ \E value \in Observations :
         /\ loc' = [loc EXCEPT ![t] = [NoMeterCall EXCEPT !.op = "notify", !.value = value]]
         /\ mhist' = [mhist EXCEPT !.observed = Append(@, value), !.left = @ - 1]
    /\ meter' = [meter EXCEPT !.lock = t]
    /\ MeterStep(t, "mt_tick")
    /\ UNCHANGED <<threads, rvars, gvars, pvars>>

\* get(): with self.lock
MeterGetEnter(t) ==
    /\ pc[t] = "idle"
    /\ MeterAcquire(t)
    /\ loc' = [loc EXCEPT ![t] = [NoMeterCall EXCEPT !.op = "get"]]
    /\ meter' = [meter EXCEPT !.lock = t]
    /\ MeterStep(t, "mt_tick")
    /\ UNCHANGED <<threads, rvars, gvars, mhist, pvars>>

\* tick(): now = time.time(); elapsed = now - self.latest_tick; the test of elapsed
MeterTick(t) ==
    /\ pc[t] = "mt_tick"
    /\ LET now == clock
           elapsed == now - meter.latest_tick
       IN  /\ loc' = [loc EXCEPT ![t].now = now, ![t].elapsed = elapsed,
                                 ![t].ticks = IF tick_due(elapsed) THEN ticks_for(elapsed)
                                              ELSE 0,
                                 ![t].i = 0, ![t].j = 1,
                                 ![t].ticked0 = mhist.ticked,
                                 ![t].latest0 = meter.latest_tick]
           /\ MeterStep(t, IF tick_due(elapsed) THEN "mt_tick_all" ELSE "mt_ticked")
    /\ UNCHANGED <<threads, rvars, gvars, ovars>>

\* EWMA.tick of avg j in turn i of tick_all: self.value is read, the lock of avg not held
EwmaTickRead(t) ==
    /\ pc[t] = "mt_tick_all" /\ loc[t].i < loc[t].ticks
    /\ loc' = [loc EXCEPT ![t].read = meter.value[loc[t].j]]
    /\ MeterStep(t, "ew_tick")
    /\ UNCHANGED <<threads, rvars, gvars, ovars>>

\* EWMA.tick, with self.lock: the rate is set or decayed, the accumulator set to 0
EwmaTick(t) ==
    /\ pc[t] = "ew_tick"
    /\ LET j == loc[t].j
           instant_rate == instant_rate_of(loc[t].read)
       IN  /\ meter' = [meter EXCEPT
                          !.rate[j] = IF meter.initialized[j]
                                      THEN decayed(@, meter.alpha[j], instant_rate)
                                      ELSE instant_rate,
                          !.initialized[j] = TRUE,
                          !.value[j] = 0]
           /\ mhist' = [mhist EXCEPT !.ticked[j] = @ + 1,
                                     !.consumed[j] = @ + loc[t].read]
           /\ loc' = [loc EXCEPT ![t].j = IF j = Len(Avgs) THEN 1 ELSE j + 1,
                                 ![t].i = IF j = Len(Avgs) THEN @ + 1 ELSE @]
    /\ MeterStep(t, "mt_tick_all")
    /\ UNCHANGED <<threads, rvars, gvars, pvars>>

\* tick(), after tick_all has returned: self.latest_tick = now
MeterTickDone(t) ==
    /\ pc[t] = "mt_tick_all" /\ loc[t].i = loc[t].ticks
    /\ meter' = [meter EXCEPT !.latest_tick = loc[t].now]
    /\ MeterStep(t, "mt_ticked")
    /\ UNCHANGED <<threads, loc, rvars, gvars, mhist, pvars>>

\* notify: avg.update(value) for avg j, which adds int(value) with the lock of avg held
EwmaUpdate(t) ==
    /\ pc[t] \in {"mt_ticked", "mt_update"} /\ loc[t].op = "notify" /\ loc[t].j <= Len(Avgs)
    /\ meter' = [meter EXCEPT !.value[loc[t].j] = @ + int(loc[t].value)]
    /\ loc' = [loc EXCEPT ![t].j = @ + 1]
    /\ MeterStep(t, "mt_update")
    /\ UNCHANGED <<threads, rvars, gvars, mhist, pvars>>

\* notify: self.count += value, the read of self.count
MeterCountRead(t) ==
    /\ pc[t] = "mt_update" /\ loc[t].j > Len(Avgs)
    /\ loc' = [loc EXCEPT ![t].tmp = meter.count]
    /\ MeterStep(t, "mt_count")
    /\ UNCHANGED <<threads, rvars, gvars, ovars>>

\* notify: self.count += value, the write of self.count; the lock is left
MeterCountWrite(t) ==
    /\ pc[t] = "mt_count"
    /\ meter' = [meter EXCEPT !.count = loc[t].tmp + loc[t].value, !.lock = 0]
    /\ MeterReturn(t, [NoMeterResult EXCEPT !.op = "notify"])
    /\ UNCHANGED <<threads, rvars, gvars, mhist, pvars>>

\* get: the dict is built, time.time() read again for the mean; the lock is left.
\* count / 0.0 raises ZeroDivisionError through the with block.
MeterGetData(t) ==
    /\ pc[t] = "mt_ticked" /\ loc[t].op = "get"
    /\ LET elapsed == clock - meter.started_on
           unused == mhist.left = MaxNotify
       IN  IF elapsed = 0
           THEN MeterReturn(t, [NoMeterResult EXCEPT !.op = "get", !.unused = unused,
                                                     !.val = "ZeroDivisionError"])
           ELSE MeterReturn(t, [NoMeterResult EXCEPT
                                   !.op = "get", !.val = "ok", !.unused = unused,
                                   !.observed = mhist.observed,
                                   !.elapsed = elapsed,
                                   !.count = meter.count,
                                   !.mean = (meter.count * RateScale) \div (elapsed * Unit),
                                   !.rates = meter.rate])
    /\ meter' = [meter EXCEPT !.lock = 0]
    /\ UNCHANGED <<threads, rvars, gvars, mhist, pvars>>

NextMeter ==
    \/ \E t \in threads : MeterNotifyEnter(t)
    \/ \E t \in threads : MeterGetEnter(t)
    \/ \E t \in threads : MeterTick(t)
    \/ \E t \in threads : EwmaTickRead(t)
    \/ \E t \in threads : EwmaTick(t)
    \/ \E t \in threads : MeterTickDone(t)
    \/ \E t \in threads : EwmaUpdate(t)
    \/ \E t \in threads : MeterCountRead(t)
    \/ \E t \in threads : MeterCountWrite(t)
    \/ \E t \in threads : MeterGetData(t)
    \/ Advance

SpecMeter == InitMeter /\ [][NextMeter]_vars

-----------------------------------------------------------------------------
(* reporter.py: register, remove, Timer.cancel, cleanup, and Timer.run, which is run by
   a thread of its own for every registration *)

\* str(uuid.uuid4()): the identifiers, in the order they are given out
IdOrder == <<"u1", "u2">>
TimerIds == {IdOrder[k] : k \in DOMAIN IdOrder}

\* the schedules a registration is made with: each yields these ticks and then ends
Schedules == {<<1, 2>>}

\* the schedule of the timer that is followed alone
LongSchedules == {<<3, 5, 8>>}

\* the thread that calls the functions of the reporter module
MainThread == CHOOSE t \in AllThreads : \A u \in AllThreads : t <= u

\* Timer(schedule, callback, tag) once started: at is where run() is, next_time the
\* tick it sleeps to
Timer_init(schedule) ==
    [schedule |-> schedule, event |-> FALSE,
     at |-> "loop", next_time |-> 0, first |-> schedule]

\* what a timer did, one record for every tick it slept to: slept, the time given to
\* time.sleep; data, what get_metrics returned, if it was called; calls, how many times
\* the callback was invoked for the tick
NoTick == [slept |-> 0, data |-> "none", calls |-> 0]

NoReporterCall == [op |-> "none", todo |-> {}]
NoReporterResult == [op |-> "none", id |-> "", val |-> None, had |-> {}]

InitReporter ==
    /\ threads = {MainThread}
    /\ pc = [t \in threads |-> "idle"]
    /\ loc = [t \in threads |-> NoReporterCall]
    /\ ret = [t \in threads |-> NoReporterResult]
    /\ kind = "none" /\ clock = 0 /\ values = <<>> /\ deque = <<>> /\ count = 0
    /\ lock = 0 /\ start_time = 0 /\ next_scale_time = 0 /\ budget = 0 /\ hist = <<>>
    /\ REGISTRY = [k \in {} |-> 0] /\ TAGS = [k \in {} |-> 0] /\ LOCK = 0
    /\ instruments = None
    /\ meter = None /\ mhist = None
    /\ timers = [k \in {} |-> 0]
    /\ reporter_REGISTRY = [k \in {} |-> 0]
    /\ rlog = [k \in {} |-> 0]

\* a step of the reporter that is not the return of a call of the main thread
NoReporterReturn == ret' = [u \in threads |-> NoReporterResult]

\* the first identifier not given out yet
next_id(made) == IdOrder[CHOOSE k \in DOMAIN IdOrder :
                            /\ IdOrder[k] \notin made
                            /\ \A h \in 1..(k - 1) : IdOrder[h] \in made]

\* where an identifier is in the order of registration, which a dict goes through
position(id) == CHOOSE k \in DOMAIN IdOrder : IdOrder[k] = id

\* faulty variant: setting the event of one timer sets the event of none
set_event_of_none(tms, id) == tms

\* Timer.cancel: self._event.set()
cancel(tms, id) == [tms EXCEPT ![id].event = TRUE]

\* faulty variant: cleanup stops after the first timer it finds
first_value_only(reg) == IF DOMAIN reg = {} THEN {} ELSE {CHOOSE id \in DOMAIN reg : TRUE}

\* REGISTRY.values(), the timers that cleanup goes through
registry_values(reg) == {reg[id] : id \in DOMAIN reg}

\* faulty variant: an error in one thread ends every thread
raise_in_all(tms, id) == [k \in DOMAIN tms |-> [tms[k] EXCEPT !.at = "dead"]]

\* an error leaves run(): the thread of the timer ends, its event is not set
raise_in(tms, id) == [tms EXCEPT ![id].at = "dead"]

\* faulty variant: no tick is skipped
skip_none(schedule, now) == schedule

\* the ticks of a schedule that are after now: for next_time in self.schedule, leaving
\* at the first next_time > now
RECURSIVE skip_passed(_, _)
skip_passed(schedule, now) ==
    IF schedule = <<>> \/ schedule[1] > now THEN schedule
    ELSE skip_passed(Tail(schedule), now)

\* get_metrics(None): metrics_by_name_list(metrics()), the names that are registered
get_metrics(reg) == DOMAIN reg

\* faulty variant: the callback is called whatever was collected
callback_always(data) == TRUE

\* if not data: ... else: self.callback(data)
callback_due(data) == data # {}

\* the last tick of the schedules the timers were made with
horizon(tms) ==
    LET last == {tms[id].first[Len(tms[id].first)] : id \in DOMAIN tms}
    IN  IF last = {} THEN 0 ELSE CHOOSE n \in last : \A m \in last : m <= n

\* time passes; it is followed until the last tick of every schedule has passed
Elapse ==
    /\ clock <= horizon(timers)
    /\ clock' = clock + 1
    /\ NoReporterReturn
    /\ UNCHANGED <<threads, pc, loc, kind, values, deque, count, lock, start_time,
                   next_scale_time, budget, hist, gvars, meter, mhist, pvars>>

\* the application registers its first metric, or deletes its only one
MetricsChange ==
    /\ REGISTRY' = IF DOMAIN REGISTRY = {} THEN Store(EmptyDict, NameOrder[1], 1)
                   ELSE EmptyDict
    /\ NoReporterReturn
    /\ UNCHANGED <<threads, pc, loc, rvars, TAGS, LOCK, instruments, meter, mhist, pvars>>

\* register(callback, schedule): the timer is made, stored with LOCK held, and started
RegisterWith(t, schedules) ==
    /\ pc[t] = "idle" /\ DOMAIN timers # TimerIds
    /\ \E schedule \in schedules :
         LET id_ == next_id(DOMAIN timers) IN
         /\ timers' = Store(timers, id_, Timer_init(schedule))
         /\ reporter_REGISTRY' = Store(reporter_REGISTRY, id_, id_)
         /\ rlog' = Store(rlog, id_, <<>>)
         /\ ret' = [ret EXCEPT ![t] = [NoReporterResult EXCEPT !.op = "register", !.id = id_,
                                                               !.val = id_]]
    /\ UNCHANGED <<threads, pc, loc, rvars, gvars, meter, mhist>>

\* register, of a timer that runs beside others
Register(t) == RegisterWith(t, Schedules)

\* register, of the only timer there is
RegisterOnce(t) == DOMAIN timers = {} /\ RegisterWith(t, LongSchedules)

\* remove(id_), LOCK held: thread = REGISTRY.pop(id_, None); thread.cancel() if there
\* is one; return thread
Remove(t) ==
    /\ pc[t] = "idle"
    /\ \E id_ \in TimerIds :
         LET thread == Get(reporter_REGISTRY, id_) IN
         /\ reporter_REGISTRY' = Pop(reporter_REGISTRY, id_)
         /\ timers' = IF id_ \in DOMAIN reporter_REGISTRY THEN cancel(timers, thread)
                      ELSE timers
         /\ ret' = [ret EXCEPT ![t] = [NoReporterResult EXCEPT
                                          !.op = "remove", !.id = id_,
                                          !.had = DOMAIN reporter_REGISTRY,
                                          !.val = IF id_ \in DOMAIN reporter_REGISTRY
                                                  THEN thread ELSE None]]
    /\ UNCHANGED <<threads, pc, loc, rvars, gvars, meter, mhist, rlog>>

\* get(id_).cancel(), for a registered id_
Cancel(t) ==
    /\ pc[t] = "idle"
    /\ \E id_ \in DOMAIN reporter_REGISTRY :
         /\ timers' = cancel(timers, reporter_REGISTRY[id_])
         /\ ret' = [ret EXCEPT ![t] = [NoReporterResult EXCEPT !.op = "cancel", !.id = id_]]
    /\ UNCHANGED <<threads, pc, loc, rvars, gvars, meter, mhist, reporter_REGISTRY, rlog>>

\* cleanup(): for v in REGISTRY.values()
CleanupEnter(t) ==
    /\ pc[t] = "idle"
    /\ pc' = [pc EXCEPT ![t] = "cl_loop"]
    /\ loc' = [loc EXCEPT ![t] = [NoReporterCall EXCEPT
                                     !.op = "cleanup",
                                     !.todo = registry_values(reporter_REGISTRY)]]
    /\ NoReporterReturn
    /\ UNCHANGED <<threads, rvars, gvars, meter, mhist, pvars>>

\* cleanup(): v.cancel() for the next timer, or the return when there is none left
CleanupNext(t) ==
    /\ pc[t] = "cl_loop"
    /\ IF loc[t].todo = {}
       THEN /\ pc' = [pc EXCEPT ![t] = "idle"]
            /\ loc' = [loc EXCEPT ![t] = NoReporterCall]
            /\ ret' = [ret EXCEPT ![t] = [NoReporterResult EXCEPT !.op = "cleanup"]]
            /\ UNCHANGED timers
       ELSE \E v \in loc[t].todo :
              /\ \A w \in loc[t].todo : position(v) <= position(w)
              /\ timers' = cancel(timers, v)
              /\ loc' = [loc EXCEPT ![t].todo = @ \ {v}]
              /\ NoReporterReturn
              /\ UNCHANGED pc
    /\ UNCHANGED <<threads, rvars, gvars, meter, mhist, reporter_REGISTRY, rlog>>

\* run(), from the test of the while to the call of time.sleep: when the event is set,
\* or every tick of the schedule has passed, the loop is left and self.cancel() called;
\* otherwise time.sleep(next_time - now) begins, at the time now that was read
TimerLoop(id) ==
    /\ id \in DOMAIN timers /\ timers[id].at = "loop"
    /\ LET now == clock
           rest == skip_passed(timers[id].schedule, now)
       IN  IF timers[id].event \/ rest = <<>>
           THEN /\ timers' = [cancel(timers, id) EXCEPT
                                 ![id].at = "done",
                                 ![id].schedule = IF timers[id].event THEN @ ELSE rest]
                /\ UNCHANGED rlog
           ELSE /\ timers' = [timers EXCEPT ![id].at = "sleeping",
                                            ![id].next_time = rest[1],
                                            ![id].schedule = Tail(rest)]
                /\ rlog' = [rlog EXCEPT ![id] = Append(@, [NoTick EXCEPT
                                                              !.slept = rest[1] - now])]
    /\ NoReporterReturn
    /\ UNCHANGED <<threads, pc, loc, rvars, gvars, meter, mhist, reporter_REGISTRY>>

\* time.sleep returns when the time has passed, whatever the event is; then
\* if not self._event.is_set()
TimerWake(id) ==
    /\ id \in DOMAIN timers /\ timers[id].at = "sleeping"
    /\ clock >= timers[id].next_time
    /\ timers' = [timers EXCEPT ![id].at = IF timers[id].event THEN "loop" ELSE "collect",
                                ![id].next_time = 0]
    /\ NoReporterReturn
    /\ UNCHANGED <<threads, pc, loc, rvars, gvars, meter, mhist, reporter_REGISTRY, rlog>>

\* data = get_metrics(self.tag); if not data: log.debug(...)
TimerCollect(id) ==
    /\ id \in DOMAIN timers /\ timers[id].at = "collect"
    /\ LET data == get_metrics(REGISTRY) IN
       /\ timers' = [timers EXCEPT ![id].at = IF callback_due(data) THEN "call" ELSE "loop"]
       /\ rlog' = [rlog EXCEPT ![id][Len(rlog[id])].data = IF data = {} THEN "empty" ELSE "some"]
    /\ NoReporterReturn
    /\ UNCHANGED <<threads, pc, loc, rvars, gvars, meter, mhist, reporter_REGISTRY>>

\* self.callback(data): the callback returns, or raises an error that leaves run()
TimerCallback(id) ==
    /\ id \in DOMAIN timers /\ timers[id].at = "call"
    /\ \E outcome \in Outcomes :
         timers' = IF outcome = "raises" THEN raise_in(timers, id)
                   ELSE [timers EXCEPT ![id].at = "loop"]
    /\ rlog' = [rlog EXCEPT ![id][Len(rlog[id])].calls = @ + 1]
    /\ NoReporterReturn
    /\ UNCHANGED <<threads, pc, loc, rvars, gvars, meter, mhist, reporter_REGISTRY>>

\* the steps of the thread of a timer
TimerStep(id) == TimerLoop(id) \/ TimerWake(id) \/ TimerCollect(id) \/ TimerCallback(id)

NextReporter ==
    \/ \E t \in threads : Register(t)
    \/ \E t \in threads : Remove(t)
    \/ \E t \in threads : Cancel(t)
    \/ \E t \in threads : CleanupEnter(t)
    \/ \E t \in threads : CleanupNext(t)
    \/ \E id \in TimerIds : TimerLoop(id)
    \/ \E id \in TimerIds : TimerWake(id)
    \/ \E id \in TimerIds : TimerCollect(id)
    \/ \E id \in TimerIds : TimerCallback(id)
    \/ MetricsChange
    \/ Elapse

SpecReporter == InitReporter /\ [][NextReporter]_vars

\* one timer, followed from its registration to its end
NextTimer ==
    \/ \E t \in threads : RegisterOnce(t)
    \/ \E t \in threads : Cancel(t)
    \/ \E id \in TimerIds : TimerLoop(id)
    \/ \E id \in TimerIds : TimerWake(id)
    \/ \E id \in TimerIds : TimerCollect(id)
    \/ \E id \in TimerIds : TimerCallback(id)
    \/ MetricsChange
    \/ Elapse

\* the thread of the timer is scheduled, and time passes
SpecTimer ==
    /\ InitReporter /\ [][NextTimer]_vars
    /\ WF_vars(Elapse)
    /\ \A id \in TimerIds : WF_vars(TimerStep(id))

----------------------------------------------------------------------------
(* Properties of the reservoirs *)

\* C1: for a Uniform, SlidingCount or ExponentialDecay reservoir of capacity size,
\* whatever adds were made (rescaling ones included), values() returns at most size
\* values: both what a call has returned and what a call would return now.
C1_ValuesWithinCapacity ==
    /\ kind \in {"uniform", "sliding", "exp"} =>
           \A t \in threads : ret[t].op = "values" => Len(ret[t].val) <= size
    /\ kind = "uniform" => Len(Uniform_get_values(values, count)) <= size
    /\ kind = "sliding" => Len(SlidingWindow_get_values(deque)) <= size
    /\ kind = "exp" => Len(ExpDecay_get_values(values, count)) <= size

\* a full exponentially decaying reservoir that has been rescaled and then read
C1_Witness ==
    /\ kind = "exp" /\ start_time > 0 /\ budget = 0
    /\ \E t \in threads : ret[t].op = "values" /\ Len(ret[t].val) = size

\* the values of the observations of h made at now - window_size or later, in order
InWindow(h, now) ==
    LET RECURSIVE keep(_)
        keep(n) == IF n = 0 THEN <<>>
                   ELSE IF h[n][1] >= now - window_size
                        THEN Append(keep(n - 1), h[n][2])
                        ELSE keep(n - 1)
    IN keep(Len(h))

\* C8: a values() of a SlidingTime reservoir that read the clock at now returns, in
\* arrival order, exactly the values added at a time t >= now - window_size.
C8_SlidingTimeWindowExact ==
    \A t \in threads :
        pc[t] = "st_read" =>
            SlidingTime_get_values(values) = InWindow(hist, loc[t].now)

\* a read that leaves out an expired observation and returns a later one
C8_Witness ==
    \E t \in threads :
        /\ pc[t] = "st_read"
        /\ Len(values) > 0 /\ Len(values) < Len(hist)

\* the last n elements of s
LastN(s, n) == SubSeq(s, Len(s) - n + 1, Len(s))

\* C9: after k adds to a SlidingCount reservoir of capacity size, values() is the
\* last min(k, size) observations in arrival order.
C9_SlidingCountLastN ==
    kind = "sliding" =>
        SlidingWindow_get_values(deque) = LastN(Seconds(hist), Min(Len(hist), size))

\* more adds than the capacity
C9_Witness == kind = "sliding" /\ Len(hist) > size /\ Len(deque) = size

\* C10: add returns a bool, true exactly when the sample was admitted.
C10_AddReturnsAdmitted ==
    \A t \in threads : ret[t].op = "add" => ret[t].val = Bool(ret[t].stored)

\* C7: a values() that runs while an add of a SlidingTime or ExponentialDecay
\* reservoir is under way returns the contents before that add or the contents after
\* it, never a state in between (expired or rescaled, the sample not yet admitted).
C7_ReadSeesNoIntermediateState ==
    \A t \in threads : ret[t].op = "add" => ~ret[t].torn

-----------------------------------------------------------------------------
(* Properties of the meter *)

\* the sum of a sequence of numbers
RECURSIVE Sum(_)
Sum(seq) == IF seq = <<>> THEN 0 ELSE seq[1] + Sum(Tail(seq))

\* the whole part of each observed value, in units
Wholes(seq) == [k \in DOMAIN seq |-> (CHOOSE n \in 0..seq[k] : n * Unit <= seq[k] /\ seq[k] < (n + 1) * Unit)]

\* C12: when tick() has returned, with elapsed = now - latest_tick as it found them: if
\* elapsed > tick_interval, each of the four EWMAs was ticked exactly n times, n being
\* the whole number with n * tick_interval <= elapsed < (n + 1) * tick_interval, and
\* latest_tick is now; otherwise no EWMA was ticked and latest_tick is as it was.
C12_TickCountsElapsedIntervals ==
    \A t \in threads : pc[t] = "mt_ticked" =>
        LET elapsed == loc[t].now - loc[t].latest0
            made == [j \in AvgIdx |-> mhist.ticked[j] - loc[t].ticked0[j]]
        IN  IF elapsed > tick_interval
            THEN /\ \A j \in AvgIdx :
                      /\ made[j] * tick_interval <= elapsed
                      /\ elapsed < (made[j] + 1) * tick_interval
                 /\ meter.latest_tick = loc[t].now
            ELSE /\ \A j \in AvgIdx : made[j] = 0
                 /\ meter.latest_tick = loc[t].latest0

\* a tick() that found more than tick_interval elapsed has returned, and one of the
\* EWMAs had been ticked before it
C12_Witness ==
    \E t \in threads :
        /\ pc[t] = "mt_ticked" /\ loc[t].now - loc[t].latest0 > tick_interval
        /\ mhist.ticked[1] > loc[t].ticked0[1]
        /\ loc[t].now = clock

C14_FirstSnapshotAllZero ==
    \A t \in threads : (ret[t].op = "get" /\ ret[t].unused) =>
        /\ ret[t].val = "ok"
        /\ ret[t].count = 0 /\ ret[t].mean = 0
        /\ \A j \in AvgIdx : ret[t].rates[j] = 0

----------------------------------------------------------------------------
(* Properties of the registry *)

\* C2: a new_metric for a name that is registered fails with DuplicateMetricError
\* and changes neither REGISTRY nor TAGS: the instrument bound to the name stays.
C2_DuplicateLeavesMapsUnchanged ==
    [][\A t \in threads :
          (/\ pc[t] = "nm_lookup" /\ pc'[t] # "nm_lookup"
           /\ loc[t].name \in DOMAIN REGISTRY)
              => /\ ret'[t].val = "DuplicateMetricError"
                 /\ REGISTRY' = REGISTRY
                 /\ TAGS' = TAGS]_vars

\* a duplicate was refused for a name that is registered and tagged
C2_Witness ==
    \E t \in threads :
        /\ ret[t].op = "new_metric" /\ ret[t].val = "DuplicateMetricError"
        /\ ret[t].name \in DOMAIN REGISTRY
        /\ \E g \in DOMAIN TAGS : ret[t].name \in TAGS[g]

\* C3: of the new_metric calls of several threads for one name, a call succeeds
\* exactly when the name is not bound as it returns, and then binds the name to the
\* new instrument it returns; every call that meets the name bound fails with
\* DuplicateMetricError and leaves the winner's instrument bound.
C3_OneCreatorPerName ==
    [][\A t \in threads :
          (pc[t] \in {"nm_lookup", "nm_store"} /\ pc'[t] = "idle")
              => IF loc[t].name \in DOMAIN REGISTRY
                 THEN /\ ret'[t].val = "DuplicateMetricError"
                      /\ REGISTRY' = REGISTRY
                 ELSE /\ ret'[t].val = "ok"
                      /\ \A k \in DOMAIN REGISTRY : REGISTRY[k] # ret'[t].item
                      /\ REGISTRY' = Store(REGISTRY, loc[t].name, ret'[t].item)]_vars

\* the loser of two calls for a name: it is handed the error while the name is bound
\* to the instrument of the winner, and the other thread is idle again
C3_Witness ==
    \E t \in threads :
        /\ ret[t].op = "new_metric" /\ ret[t].val = "DuplicateMetricError"
        /\ ret[t].name \in DOMAIN REGISTRY
        /\ REGISTRY[ret[t].name] = ret[t].item
        /\ DOMAIN TAGS = {}
        /\ \A u \in threads : pc[u] = "idle"

\* C4: when delete_metric(name) has returned, name is not registered, no tag holds
\* it, and no tag that held it is left in TAGS with an empty set.
C4_DeleteDropsEmptiedTags ==
    \A t \in threads :
        ret[t].op = "delete_metric" =>
            /\ ret[t].name \notin DOMAIN REGISTRY
            /\ \A g \in DOMAIN TAGS : ret[t].name \notin TAGS[g]
            /\ \A g \in ret[t].had : g \in DOMAIN TAGS => TAGS[g] # {}

\* C5: whenever no call is inside the lock, every name of every tag is registered.
C5_TaggedNamesRegistered ==
    LOCK = 0 => \A g \in DOMAIN TAGS : TAGS[g] \subseteq DOMAIN REGISTRY

\* a tagged instrument has been deleted while another one keeps the tag
C5_Witness ==
    /\ LOCK = 0
    /\ \E t \in threads : ret[t].op = "delete_metric" /\ ret[t].had # {}
                          /\ \E g \in ret[t].had : Get(TAGS, g) # {}

\* C6: a metrics_by_tag(tag) that runs beside delete_metric calls ends without an
\* error, and the keys of the map it returns are names that the tag held.
C6_SnapshotByTagCompletes ==
    \A t \in threads :
        ret[t].op = "metrics_by_tag" =>
            /\ ret[t].val = "ok"
            /\ ret[t].keys \subseteq ret[t].tagged

----------------------------------------------------------------------------
(* Properties of ReservoirBase.add *)

\* every value that a reservoir holds is a float that an add was given
OnlyFloatsStored ==
    /\ kind = "uniform" => \A i \in 1..Min(count, size) : values[i] \in Vals
    /\ kind = "sliding" => \A i \in DOMAIN deque : deque[i] \in Vals
    /\ kind \in {"time", "exp"} => \A i \in DOMAIN values : values[i][2] \in Vals

\* C11: an add whose value float() refuses raises and leaves the reservoir as it
\* was: the stored values and the counter are the same, nothing has expired and no
\* rescale was made (the lock, start_time and next_scale_time are untouched); and no
\* such value is ever stored.
C11_RejectedAddChangesNothing ==
    [][/\ \A t \in threads :
            (/\ pc[t] = "idle" /\ pc' = pc /\ budget' # budget
             /\ ret'[t].op = "add_raised"
             /\ \A u \in threads \ {t} : ret'[u] = ret[u])
                => UNCHANGED <<values, deque, count, lock, start_time, next_scale_time, hist>>
       /\ OnlyFloatsStored']_vars

\* an add was refused on a reservoir that holds values and is due for a rescale
C11_Witness ==
    /\ kind = "exp" /\ values # <<>> /\ clock > next_scale_time
    /\ \E t \in threads : ret[t].op = "add_raised" /\ ret[t].val = "TypeError"

-----------------------------------------------------------------------------
(* Properties of the reporter *)

\* for every tick a timer slept to, the callback was called once when get_metrics gave
\* something, the call it is about to make counted, and never otherwise
Served(id) ==
    \A k \in DOMAIN rlog[id] :
        LET about == k = Len(rlog[id]) /\ timers[id].at = "call"
        IN  rlog[id][k].calls = IF rlog[id][k].data = "some" /\ ~about THEN 1 ELSE 0

\* C15: a timer with a finite schedule comes to its end, by leaving the loop or by an
\* error of its callback; at every moment the callback has been called exactly once for
\* every tick slept to whose snapshot was not empty and never for another tick; and
\* once the loop is left is_running is false.
C15_FiniteScheduleEnds ==
    /\ [](\A id \in DOMAIN timers :
              /\ Served(id)
              /\ timers[id].at = "done" => timers[id].event)
    /\ \A id \in TimerIds :
           (id \in DOMAIN timers) ~> (id \in DOMAIN timers /\ timers[id].at \in {"done", "dead"})

\* the timer with schedule 3, 5, 8 has ended after the sleeps 3, 1, 2 and three calls
C15_Witness ==
    \E id \in DOMAIN timers :
        /\ timers[id].first = <<3, 5, 8>> /\ timers[id].at = "done"
        /\ timers[id].schedule = <<>>
        /\ [k \in DOMAIN rlog[id] |-> rlog[id][k].slept] = <<3, 1, 2>>
        /\ \A k \in DOMAIN rlog[id] : rlog[id][k].calls = 1

\* C16: no call of the callback of a timer begins when the event of the timer is set,
\* whatever the interleaving of cancel() with run().
C16_NoCallbackAfterCancel ==
    [][\A id \in DOMAIN timers :
           (timers[id].at = "call" /\ timers'[id].at # "call") => ~timers[id].event]_vars

\* C17: a timer that is in time.sleep when its event is set leaves the sleep at once:
\* it can go on without the time of its tick having come.
C17_CancelUnblocksSleep ==
    \A id \in DOMAIN timers :
        (timers[id].at = "sleeping" /\ timers[id].event) => ENABLED TimerWake(id)

\* C18: the step in which the callback of a timer raises ends the thread of that timer
\* only: every other timer is as it was, and so are the registry of the reporter, the
\* registry and the tags of the metrics, and the instruments.
C18_CallbackErrorEndsOnlyItsWorker ==
    [][\A id \in DOMAIN timers :
           (timers[id].at # "dead" /\ timers'[id].at = "dead") =>
               /\ \A other \in DOMAIN timers \ {id} : timers'[other] = timers[other]
               /\ timers[id].at = "call"
               /\ UNCHANGED <<reporter_REGISTRY, REGISTRY, TAGS, meter, rvars>>]_vars

\* the thread of a timer has died of an error and another timer, not cancelled, has
\* come to the call of its callback
C18_Witness ==
    \E id \in DOMAIN timers, other \in DOMAIN timers :
        /\ id # other
        /\ timers[id].at = "dead"
        /\ timers[other].at = "call" /\ ~timers[other].event

\* C19: when cleanup() has returned, the event of every timer in REGISTRY is set.
C19_CleanupCancelsAll ==
    \A t \in threads : ret[t].op = "cleanup" =>
        \A id \in DOMAIN reporter_REGISTRY : timers[reporter_REGISTRY[id]].event

\* cleanup() has returned with two timers registered, one of them still asleep
C19_Witness ==
    /\ \E t \in threads : ret[t].op = "cleanup"
    /\ DOMAIN reporter_REGISTRY = TimerIds
    /\ \E id \in DOMAIN reporter_REGISTRY : timers[id].at = "sleeping"

\* C20: remove(id_) of a registered id_ takes it, and nothing else, out of REGISTRY,
\* sets the event of its timer and of no other, and returns that timer; remove(id_) of
\* an id_ that is not registered returns None and changes no timer and no registration.
C20_RemoveCancelsOnlyRegistered ==
    [][\A t \in threads : ret'[t].op = "remove" =>
           LET id_ == ret'[t].id IN
           IF id_ \in DOMAIN reporter_REGISTRY
           THEN /\ DOMAIN reporter_REGISTRY' = DOMAIN reporter_REGISTRY \ {id_}
                /\ \A k \in DOMAIN reporter_REGISTRY' :
                       reporter_REGISTRY'[k] = reporter_REGISTRY[k]
                /\ ret'[t].val = reporter_REGISTRY[id_]
                /\ timers'[ret'[t].val].event
                /\ \A k \in DOMAIN timers \ {ret'[t].val} : timers'[k] = timers[k]
                /\ DOMAIN timers' = DOMAIN timers
           ELSE /\ ret'[t].val = None
                /\ timers' = timers
                /\ reporter_REGISTRY' = reporter_REGISTRY]_vars

\* remove has returned the timer of a registered id_, which was asleep, and the other
\* timer is still registered and not cancelled
C20_Witness ==
    \E t \in threads :
        /\ ret[t].op = "remove" /\ ret[t].val \in DOMAIN timers
        /\ timers[ret[t].val].at = "sleeping"
        /\ \E k \in DOMAIN reporter_REGISTRY : ~timers[k].event

-----------------------------------------------------------------------------
(* Properties of the Uniform reservoir *)

\* the step is an add of thread t that reached _do_add
UniformAdded(t) == kind = "uniform" /\ budget' = budget - 1 /\ ret'[t].op = "add"

\* C27: for a Uniform reservoir of capacity size whose counter is c before an add(x):
\* when c < size, x is stored in slot c and no other slot changes; every add increases
\* the counter by exactly 1; values() returns the first min(c, size) slots in slot order.
C27_UniformFillsInSlotOrder ==
    [][\A t \in threads :
         /\ UniformAdded(t) =>
              /\ count' = count + 1
              /\ count < size =>
                   /\ values'[count + 1] = ret'[t].arg
                   /\ \A i \in 1..size : i # count + 1 => values'[i] = values[i]
         /\ (kind = "uniform" /\ ret'[t].op = "values" /\ ret' # ret) =>
              /\ Len(ret'[t].val) = Min(count, size)
              /\ \A i \in 1..Min(count, size) : ret'[t].val[i] = values[i]]_vars

\* the second slot of a reservoir has been filled after the first, with another value,
\* and values() has returned both
C27_Witness ==
    /\ kind = "uniform" /\ count = size
    /\ values[1] # 0 /\ values[2] # 0 /\ values[1] # values[2]
    /\ \E t \in threads : ret[t].op = "values" /\ ret[t].val = values

\* C28: for a Uniform reservoir whose counter c is at least size, add(x) draws k in
\* [0, c): when k < size exactly slot k becomes x, the other slots are unchanged and add
\* returns true; when k >= size the contents are unchanged and add returns false.
C28_UniformReplacesDrawnSlot ==
    [][\A t \in threads :
         (UniformAdded(t) /\ count >= size) =>
             LET k == ret'[t].drawn IN
             /\ k \in 0..(count - 1)
             /\ k < size =>
                  /\ values'[k + 1] = ret'[t].arg
                  /\ \A i \in 1..size : i # k + 1 => values'[i] = values[i]
                  /\ ret'[t].val = "True"
             /\ k >= size => values' = values /\ ret'[t].val = "False"]_vars

\* a full reservoir has dropped a value: the draw was not below size
C28_Witness ==
    /\ kind = "uniform" /\ count > size
    /\ \E t \in threads : ret[t].op = "add" /\ ret[t].drawn >= size /\ ret[t].val = "False"
    /\ \A i \in 1..size : values[i] # 0

-----------------------------------------------------------------------------
(* Properties of the ExponentialDecay reservoir *)

\* some entry of vals has a priority within EPSILON of p
NearPriority(vals, p) == \E i \in 1..Len(vals) : Abs(vals[i][1] - p) < EPSILON

\* C29: for an ExponentialDecay reservoir whose counter is at least size, an add with
\* the new priority p replaces the entry of minimum priority exactly when p is strictly
\* greater than the minimum priority and no stored entry has a priority within EPSILON
\* of p; otherwise the entries and their order are unchanged and add returns false; the
\* counter is incremented in both cases.
C29_ExpDecayReplacesMinimum ==
    [][\A t \in threads :
         /\ (kind = "exp" /\ pc[t] = "ed_admit" /\ pc'[t] = "ed_sort" /\ count >= size) =>
              LET p == loc[t].wt IN
              IF values[1][1] < p /\ ~NearPriority(values, p)
              THEN /\ values' = [values EXCEPT ![1] = <<p, loc[t].value>>]
                   /\ loc'[t].changed
              ELSE values' = values /\ ~loc'[t].changed
         /\ (kind = "exp" /\ pc[t] = "ed_sort" /\ pc'[t] = "idle") =>
              /\ count' = count + 1
              /\ ret'[t].val = Bool(loc[t].changed)
              /\ ~loc[t].changed => values' = values]_vars

\* the entries of vals are in ascending order of priority
ByPriority(vals) == \A i, j \in 1..Len(vals) : i < j => vals[i][1] <= vals[j][1]

\* C30: in every state of an ExponentialDecay reservoir that adds and rescales reach
\* (no add being between its store and its sort, which run under the lock), the stored
\* (priority, value) pairs are in ascending order of priority: the first entry has the
\* minimum priority, and values() lists the values in priority order.
C30_ExpDecaySortedByPriority ==
    (kind = "exp" /\ \A t \in threads : pc[t] # "ed_sort") =>
        /\ ByPriority(values)
        /\ \A i \in 1..Len(values) : values[1][1] <= values[i][1]
        /\ ExpDecay_get_values(values, count) = Seconds(sort_by_key(values))

\* a full reservoir that was rescaled has replaced its minimum, and was read
C30_Witness ==
    /\ kind = "exp" /\ start_time > 0 /\ count > size /\ Len(values) = size
    /\ values[1][1] < values[2][1]
    /\ \E t \in threads : ret[t].op = "values" /\ ret[t].val = Seconds(values)

-----------------------------------------------------------------------------
(* Properties of tag and untag *)

\* C23: tag(name, tag_name) for a name that is not registered, a name that
\* delete_metric has just removed included, raises InvalidMetricError and leaves TAGS
\* as it was: no entry for tag_name is made. It raises that error in no other case.
C23_TagUnknownNameRaises ==
    [][\A t \in threads :
         /\ (pc[t] = "idle" /\ pc'[t] = "tg_check") => TAGS' = TAGS
         /\ (pc[t] = "tg_check" /\ pc'[t] # pc[t] /\ loc[t].name \notin DOMAIN REGISTRY) =>
              /\ pc'[t] = "idle"
              /\ ret'[t] = Result("tag", loc[t].name, loc[t].tag, "InvalidMetricError")
              /\ TAGS' = TAGS /\ REGISTRY' = REGISTRY
         /\ (ret'[t].op = "tag" /\ ret'[t].val = "InvalidMetricError") =>
              /\ pc[t] = "tg_check" /\ loc[t].name \notin DOMAIN REGISTRY]_vars

\* "a" was registered before "b" and then deleted; tag("a", 1) has raised, and the set
\* of tag 1 still holds "b" alone
C23_Witness ==
    /\ DOMAIN REGISTRY = {"b"} /\ REGISTRY["b"] = 2
    /\ DOMAIN TAGS = {1} /\ TAGS[1] = {"b"}
    /\ \E t \in threads : ret[t] = Result("tag", "a", 1, "InvalidMetricError")

\* C24: untag(name, tag_name) returns true exactly when name was in the set of
\* tag_name before the call; after a true return name is not in that set, the key
\* tag_name is gone when the set became empty, and the other tags are as they were;
\* on a false return TAGS is unchanged.
C24_UntagReturnsWasTagged ==
    [][\A t \in threads :
         /\ (loc[t].op = "untag" /\ pc[t] # "idle" /\ pc'[t] = "idle") =>
              LET name == loc[t].name
                  tag_name == loc[t].tag
                  was == tag_name \in DOMAIN TAGS /\ name \in TAGS[tag_name]
              IN /\ ret'[t] = Result("untag", name, tag_name, Bool(was))
                 /\ ~was => TAGS' = TAGS
                 /\ was =>
                      /\ IF TAGS[tag_name] = {name}
                         THEN tag_name \notin DOMAIN TAGS'
                         ELSE /\ tag_name \in DOMAIN TAGS'
                              /\ TAGS'[tag_name] = TAGS[tag_name] \ {name}
                      /\ \A g \in DOMAIN TAGS \ {tag_name} :
                           g \in DOMAIN TAGS' /\ TAGS'[g] = TAGS[g]
                      /\ DOMAIN TAGS' \subseteq DOMAIN TAGS
         /\ (loc'[t].op = "untag" /\ pc'[t] # "idle") => TAGS' = TAGS]_vars

\* untag has removed the last name of a tag: it returned true and the key is gone, the
\* name being still registered
C24_Witness ==
    /\ "a" \in DOMAIN REGISTRY /\ 1 \notin DOMAIN TAGS
    /\ \E t \in threads : ret[t] = Result("untag", "a", 1, "True")

-----------------------------------------------------------------------------
(* Properties of the instruments of the registry *)

\* name is in the set of no tag
Untagged(tags, name) == \A g \in DOMAIN tags : name \notin tags[g]

\* C25: when delete_metric(n) returns, n is not registered and is in the set of no tag;
\* a new_metric(n) that finds n not registered succeeds; and the instrument it binds
\* to n has been notified nothing, whatever the deleted instrument was notified, and n
\* carries no tag.
C25_RecreatedInstrumentIsEmpty ==
    [][\A t \in threads :
         /\ (loc[t].op = "delete_metric" /\ pc[t] = "dm_tags" /\ pc'[t] = "idle") =>
              /\ loc[t].name \notin DOMAIN REGISTRY'
              /\ Untagged(TAGS', loc[t].name)
         /\ (pc[t] = "nm_lookup" /\ pc'[t] # pc[t] /\ loc[t].name \notin DOMAIN REGISTRY) =>
              pc'[t] = "nm_store"
         /\ (pc[t] = "nm_store" /\ pc'[t] = "idle") =>
              /\ loc[t].name \in DOMAIN REGISTRY'
              /\ ret'[t] = [Result("new_metric", loc[t].name, 0, "ok")
                               EXCEPT !.item = REGISTRY'[loc[t].name]]
              /\ instruments'[REGISTRY'[loc[t].name]].n = 0
              /\ \A k \in DOMAIN REGISTRY \ {loc[t].name} :
                   REGISTRY'[k] # REGISTRY'[loc[t].name]
              /\ Untagged(TAGS', loc[t].name)]_vars

\* "a" was notified a value and tagged, then deleted while a thread held it; new_metric
\* has bound "a" again: to an instrument with no value, and the set of the tag is empty
C25_Witness ==
    /\ DOMAIN REGISTRY = {"a"} /\ instruments[REGISTRY["a"]].n = 0
    /\ DOMAIN TAGS = {1} /\ TAGS[1] = {}
    /\ \E t \in threads : ret[t].op = "new_metric" /\ ret[t].name = "a" /\ ret[t].val = "ok"
    /\ \E u \in threads : /\ loc[u].op = "notify" /\ loc[u].name = "a" /\ loc[u].detached
                          /\ loc[u].held.n > 0

\* C21: get_or_create_histogram(n, spec) that finds n bound to a histogram whose
\* reservoir has the type and the parameters asked returns that instrument, and one that
\* finds n unbound binds a new histogram built as asked and returns it: two calls with
\* the same type and parameters return the same instrument. When n is bound to a
\* histogram of another reservoir type or of other parameters, or to an instrument that
\* is no histogram, the call raises DuplicateMetricError. In no case does a bound
\* instrument stop being bound to its name. (A call that finds n bound, and then deleted
\* by another thread, is none of these cases.)
C21_GetOrCreateReturnsSameKind ==
    [][\A t \in threads :
         (loc[t].op = "get_or_create_histogram" /\ pc[t] # "idle" /\ pc'[t] = "idle") =>
             LET n == loc[t].name
                 asked == loc[t].reservoir
                 bound == n \in DOMAIN REGISTRY
                 same == /\ instruments[REGISTRY[n]].cls = "Histogram"
                         /\ instruments[REGISTRY[n]].reservoir.type = asked.type
                         /\ instruments[REGISTRY[n]].reservoir.size = asked.size
             IN /\ \A k \in DOMAIN REGISTRY :
                     k \in DOMAIN REGISTRY' /\ REGISTRY'[k] = REGISTRY[k]
                        /\ instruments'[REGISTRY[k]] = instruments[REGISTRY[k]]
                /\ (bound /\ same) =>
                     /\ ret'[t].val = "ok" /\ ret'[t].item = REGISTRY[n] /\ ret'[t].found
                     /\ REGISTRY' = REGISTRY
                /\ (bound /\ ~same) =>
                     /\ ret'[t] = Result("get_or_create_histogram", n, 0, "DuplicateMetricError")
                     /\ REGISTRY' = REGISTRY
                /\ (~bound /\ pc[t] = "nm_store") =>
                     /\ ret'[t].val = "ok" /\ ret'[t].item = REGISTRY'[n] /\ ~ret'[t].found
                     /\ instruments'[REGISTRY'[n]] = Instrument("Histogram", asked)]_vars

\* a second get_or_create_histogram("a", uniform of size 2) has returned the histogram
\* that the first one made, while "b" is bound to a counter
C21_Witness ==
    /\ DOMAIN REGISTRY = {"a", "b"}
    /\ instruments[REGISTRY["a"]] = Instrument("Histogram", [type |-> "uniform", size |-> 2])
    /\ instruments[REGISTRY["b"]].cls = "Counter"
    /\ \E t \in threads :
         /\ ret[t].op = "get_or_create_histogram" /\ ret[t].name = "a"
         /\ ret[t].val = "ok" /\ ret[t].found /\ ret[t].item = REGISTRY["a"]

\* C22: timer(name, ...) records exactly one observation into the named histogram on
\* every exit from the block of the with statement, also when the block raises: the
\* histogram it holds, while it is bound, is notified nothing while the block runs and
\* one value by the step that leaves the timer.
C22_TimerRecordsOnEveryExit ==
    [][\A t \in threads :
         (loc[t].op = "timer" /\ pc[t] \in {"tm_block", "tm_notify"}
                              /\ pc'[t] # pc[t] /\ ~loc[t].detached) =>
             LET h == loc[t].item IN
             /\ h \in DOMAIN instruments'
             /\ instruments'[h].n =
                    IF pc'[t] = "idle" THEN instruments[h].n + 1 ELSE instruments[h].n]_vars

-----------------------------------------------------------------------------
(* histogram.py: Histogram.get, over statistics.py. A statistic either raises, or
   returns a value. A value that is a ratio is kept as <<numerator, denominator>>; one
   that takes a root or a power is kept as the expression, its name and its arguments:
   whether a statistic raises, and what, is computed as the code computes it. *)

Returns(v) == [raises |-> "no", v |-> v]
Raises(e) == [raises |-> e, v |-> 0]

\* x put in its place in the sorted list s
RECURSIVE insort(_, _)
insort(s, x) ==
    IF s = <<>> THEN <<x>>
    ELSE IF x < Head(s) THEN <<x>> \o s
    ELSE <<Head(s)>> \o insort(Tail(s), x)

\* ReservoirBase.sorted_values: sorted(self.values)
RECURSIVE sorted_values(_)
sorted_values(vals) ==
    IF vals = <<>> THEN <<>> ELSE insort(sorted_values(Tail(vals)), Head(vals))

\* statistics.mean
mean(data) ==
    IF Len(data) < 1 THEN Raises("StatisticsError")
    ELSE Returns(<<Sum(data), Len(data)>>)

\* statistics.median
median(data) ==
    LET n == Len(data)
        i == n \div 2
    IN IF n = 0 THEN Raises("StatisticsError")
       ELSE IF n % 2 = 1 THEN Returns(<<data[i + 1], 1>>)
       ELSE Returns(<<data[i] + data[i + 1], 2>>)

\* statistics._ss, times len(data): the sum of the squares of the deviations from the mean
ss(data) == Len(data) * Sum([i \in DOMAIN data |-> data[i] * data[i]]) - Sum(data) * Sum(data)

\* statistics.variance
variance(data) ==
    IF Len(data) < 2 THEN Raises("StatisticsError")
    ELSE Returns(<<ss(data), Len(data) * (Len(data) - 1)>>)

\* statistics.stdev: math.sqrt(variance(data))
stdev(data) ==
    LET var == variance(data) IN
    IF var.raises # "no" THEN var ELSE Returns(<<"sqrt", var.v>>)

\* statistics.geometric_mean
geometric_mean(data) ==
    IF data = <<>> THEN Raises("StatisticsError")
    ELSE Returns(<<"geometric_mean", data>>)

\* statistics.harmonic_mean: len(data) / sum(1.0 / x if x else 0.0), the values not
\* being negative
harmonic_mean(data) ==
    IF data = <<>> THEN Raises("StatisticsError")
    ELSE IF \A i \in DOMAIN data : data[i] = 0 THEN Raises("ZeroDivisionError")
    ELSE Returns(<<"harmonic_mean", data>>)

\* faulty variant: a deviation of zero gives a StatisticsError
moment_checked(name, data) ==
    IF data = <<>> THEN Raises("StatisticsError")
    ELSE LET sd == stdev(data) IN
         IF sd.raises # "no" THEN sd
         ELSE IF sd.v[2][1] = 0 THEN Raises("StatisticsError")
         ELSE Returns(<<name, data>>)

\* statistics.skewness and statistics.kurtosis: sd = stdev(data) ** 3 (or ** 4), and
\* each (x - mn) ** 3 (or ** 4) is divided by sd
moment(name, data) ==
    IF data = <<>> THEN Raises("StatisticsError")
    ELSE LET sd == stdev(data) IN
         IF sd.raises # "no" THEN sd
         ELSE IF sd.v[2][1] = 0 THEN Raises("ZeroDivisionError")
         ELSE Returns(<<name, data>>)

skewness(data) == moment("skewness", data)
kurtosis(data) == moment("kurtosis", data)

\* plevels = [50, 75, 90, 95, 99, 99.9], in thousandths
plevels == <<500, 750, 900, 950, 990, 999>>

\* statistics.percentile(data, n), n in thousandths: idx = (n / 100.0) * size - 0.5
percentile(data, n) ==
    LET sz == Len(data)
        idx == n * sz - 500
    IN IF idx < 0 \/ idx > sz * 1000 THEN Raises("StatisticsError")
       ELSE Returns(data[(idx \div 1000) + 1])

\* statistics.get_histogram
get_histogram(data) ==
    IF Len(data) < 2 THEN Raises("StatisticsError")
    ELSE Returns(<<"get_histogram", data>>)

\* safe(f, *args): a StatisticsError gives 0.0, any other error goes on
safe(r) == IF r.raises = "StatisticsError" THEN Returns(0) ELSE r

\* Histogram.get on the sorted values: the dict, or the error that leaves the call
Histogram_get(vals) ==
    LET stats == [arithmetic_mean |-> safe(mean(vals)),
                  geometric_mean |-> safe(geometric_mean(vals)),
                  harmonic_mean |-> safe(harmonic_mean(vals)),
                  median |-> safe(median(vals)),
                  variance |-> safe(variance(vals)),
                  standard_deviation |-> safe(stdev(vals)),
                  skewness |-> safe(skewness(vals)),
                  kurtosis |-> safe(kurtosis(vals))]
        percentiles == [i \in DOMAIN plevels |-> safe(percentile(vals, plevels[i]))]
        histogram == LET h == get_histogram(vals) IN
                     IF h.raises = "StatisticsError" THEN Returns(<<<<0, 0>>>>) ELSE h
        errors == {stats[f].raises : f \in DOMAIN stats} \ {"no"}
    IN IF errors # {}
       THEN [raises |-> CHOOSE e \in errors : TRUE]
       ELSE [raises |-> "no", kind |-> "histogram",
             min |-> IF vals # <<>> THEN vals[1] ELSE 0,
             max |-> IF vals # <<>> THEN vals[Len(vals)] ELSE 0,
             stats |-> [f \in DOMAIN stats |-> stats[f].v],
             percentile |-> [i \in DOMAIN plevels |-> <<plevels[i], percentiles[i].v>>],
             histogram |-> histogram.v,
             n |-> Len(vals)]

\* Histogram.get, of a histogram over a Uniform reservoir
HistogramGet(t) ==
    /\ kind = "uniform" /\ pc[t] = "idle"
    /\ ret' = [ret EXCEPT ![t] =
                 [NoRet EXCEPT !.op = "get",
                               !.val = Histogram_get(sorted_values(
                                           Uniform_get_values(values, count)))]]
    /\ UNCHANGED <<ovars, gvars, threads, pc, loc, rvars>>

\* Histogram.notify is reservoir.add
NextSnapshot ==
    \/ \E t \in threads : UniformAdd(t)
    \/ \E t \in threads : HistogramGet(t)

SpecSnapshot == InitUniform /\ [][NextSnapshot]_vars

-----------------------------------------------------------------------------
(* Properties of Histogram.get *)

\* C26: Histogram.get raises nothing: a statistic that cannot be computed on the samples
\* is 0.0 in the dict, the histogram field is [(0, 0)] when there are fewer than 2
\* samples, and for an empty reservoir every statistic is zero and n is 0.
C26_SnapshotNeverFails ==
    \A t \in threads : ret[t].op = "get" =>
        LET res == ret[t].val IN
        /\ res.raises = "no"
        /\ res.n < 2 => res.histogram = <<<<0, 0>>>>
        /\ res.n = 0 =>
             /\ res.min = 0 /\ res.max = 0
             /\ \A f \in DOMAIN res.stats : res.stats[f] = 0
             /\ \A i \in DOMAIN plevels : res.percentile[i] = <<plevels[i], 0>>

-----------------------------------------------------------------------------
(* Properties of the priorities of the ExponentialDecay reservoir *)

\* C31: an ExponentialDecay reservoir never stores two entries whose priorities differ
\* by less than EPSILON: under capacity a put replaces the stored entry whose priority
\* is within EPSILON of the new one, above or below it, and at capacity a sample with
\* such a priority is not admitted.
C31_ExpDecayPrioritiesApart ==
    kind = "exp" =>
        \A i, j \in 1..Len(values) :
            i # j => Abs(values[i][1] - values[j][1]) >= EPSILON

\* the stored entries are those of orig, each priority scaled over dt, in the order they
\* had in orig: entries collapse, none is made up, and no scaled priority is missing
\* the priority p after the time dt > 0: p * exp(-alpha * dt), exp(alpha) being 2
Decayed(p, dt) == p \div Pow2(dt)

RescaledFrom(vals, orig, dt) ==
    /\ \E f \in [1..Len(vals) -> 1..Len(orig)] :
         /\ \A i, j \in 1..Len(vals) : i < j => f[i] < f[j]
         /\ \A i \in 1..Len(vals) : vals[i] = <<Decayed(orig[f[i]][1], dt), orig[f[i]][2]>>
    /\ \A i \in 1..Len(orig) : \E j \in 1..Len(vals) : vals[j][1] = Decayed(orig[i][1], dt)

\* C32: an add on an ExponentialDecay reservoir at a time now > next_scale_time
\* rescales: every stored priority is multiplied by exp(-alpha * (now - start_time)),
\* the entries that survive keep their relative order, start_time becomes now,
\* next_scale_time becomes now + RESCALE_THRESHOLD and the counter becomes the number of
\* entries that survive; at a time now <= next_scale_time none of these change.
C32_ExpDecayRescale ==
    [][\A t \in threads : kind = "exp" =>
         /\ (pc[t] = "ed_rescale" /\ pc'[t] = "ed_rescale_loop") =>
              loc[t].now > next_scale_time
         /\ (pc[t] = "ed_rescale" /\ pc'[t] = "ed_weight") =>
              /\ loc[t].now <= next_scale_time
              /\ UNCHANGED <<values, count, start_time, next_scale_time>>
         /\ (pc[t] = "ed_rescale_loop" /\ pc'[t] = "ed_weight") =>
              /\ RescaledFrom(values', loc[t].tmp, loc[t].now - start_time)
              /\ ByPriority(values')
              /\ start_time' = loc[t].now
              /\ next_scale_time' = loc[t].now + RESCALE_THRESHOLD
              /\ count' = Len(values')]_vars

\* a rescale has just ended that two entries of distinct priorities survived
C32_Witness ==
    /\ kind = "exp" /\ start_time > 0 /\ next_scale_time = start_time + RESCALE_THRESHOLD
    /\ \E t \in threads : pc[t] = "ed_weight" /\ loc[t].now = start_time
    /\ count = 2 /\ Len(values) = 2
    /\ 0 < values[1][1] /\ values[1][1] < values[2][1]

-----------------------------------------------------------------------------
(* Properties of the SlidingTime reservoir under several callers *)

\* C33: in every state of a SlidingTime reservoir under a clock that never goes back,
\* add being called by several threads at once included, the stored entries are in
\* ascending order of timestamp, so that the expired entries are a prefix of the store.
C33_SlidingTimeSortedByTimestamp ==
    kind = "time" => ByPriority(values)

-----------------------------------------------------------------------------
(* Properties of the ticks of the EWMAs *)

\* C34: EWMA.tick: the first tick sets rate to accumulator / tick_interval and marks
\* the EWMA initialized; every later tick sets rate to
\* rate + alpha * (accumulator / tick_interval - rate); every tick sets the accumulator
\* to 0; rate is 0.0 until the first tick, and initialized never goes back to false.
C34_EwmaTick ==
    [][/\ \A j \in AvgIdx :
            /\ meter.initialized[j] => meter'.initialized[j]
            /\ ~meter'.initialized[j] => meter'.rate[j] = 0
       /\ \A t \in threads : pc[t] = "ew_tick" /\ pc'[t] # "ew_tick" =>
            LET j == loc[t].j
                instant == (meter.value[j] * RateScale) \div tick_interval
            IN /\ meter'.initialized[j]
               /\ meter'.value[j] = 0
               /\ meter'.rate[j] =
                    IF meter.initialized[j]
                    THEN meter.rate[j]
                           + (meter.alpha[j] * (instant - meter.rate[j])) \div AlphaScale
                    ELSE instant
               /\ \A k \in AvgIdx \ {j} :
                    /\ meter'.rate[k] = meter.rate[k]
                    /\ meter'.value[k] = meter.value[k]]_vars

\* the one-minute EWMA was set by its first tick to the rate of what was observed, and
\* decayed by a second tick from there
C34_Witness ==
    /\ mhist.ticked[1] = 2 /\ mhist.consumed[1] > 0
    /\ meter.initialized[1] /\ meter.value[1] = 0
    /\ 0 < meter.rate[1]
    /\ meter.rate[1] < (mhist.consumed[1] * RateScale) \div tick_interval

-----------------------------------------------------------------------------
(* Properties of the run of a timer *)

\* C35: before each sleep the thread of a timer moves its schedule past the time it
\* read: the ticks that are not after now are consumed with no sleep and no callback,
\* every sleep lasts next tick - now, which is more than 0, and a tick that was
\* consumed is never slept to or reported later.
C35_SleepsToNextFutureTick ==
    [][\A id \in DOMAIN timers :
         LET schedule == timers[id].schedule
             next == timers'[id].next_time
         IN
         /\ \E n \in 0..Len(schedule) :
              timers'[id].schedule = SubSeq(schedule, n + 1, Len(schedule))
         /\ (timers[id].at = "loop" /\ timers'[id].at = "sleeping") =>
              /\ next > clock
              /\ \E n \in 1..Len(schedule) :
                   /\ schedule[n] = next
                   /\ \A m \in 1..(n - 1) : schedule[m] <= clock
                   /\ timers'[id].schedule = SubSeq(schedule, n + 1, Len(schedule))
              /\ rlog'[id] = Append(rlog[id], [NoTick EXCEPT !.slept = next - clock])
              /\ rlog'[id][Len(rlog'[id])].slept > 0
         /\ timers'[id].schedule # schedule =>
              /\ timers[id].at = "loop"
              /\ timers'[id].at # "sleeping" =>
                   /\ timers'[id].schedule = <<>>
                   /\ \A m \in 1..Len(schedule) : schedule[m] <= clock
         /\ (timers[id].at = "loop" /\ timers'[id].at # "sleeping") => rlog'[id] = rlog[id]
         /\ Len(rlog'[id]) > Len(rlog[id]) => timers'[id].at = "sleeping"]_vars

\* a timer that was late for its first tick sleeps to its second one
C35_Witness ==
    \E id \in DOMAIN timers :
        /\ timers[id].first = <<1, 2>> /\ timers[id].at = "sleeping"
        /\ timers[id].next_time = 2 /\ timers[id].schedule = <<>>
        /\ rlog[id] = <<[NoTick EXCEPT !.slept = 1]>>

\* Timer.is_running: not self._event.is_set()
is_running(timer) == ~timer.event

\* C36: whenever the thread of a timer has ended, whatever ended it (the schedule is
\* exhausted, the timer was cancelled, or the callback raised an error), is_running is
\* false.
C36_EndedTimerIsNotRunning ==
    \A id \in DOMAIN timers :
        timers[id].at \in {"done", "dead"} => ~is_running(timers[id])

-----------------------------------------------------------------------------
(* Properties of get_or_create_histogram beside delete_metric *)

\* C37: get_or_create_histogram(n, ...) that runs while another thread runs
\* delete_metric(n) returns a histogram or raises DuplicateMetricError: whatever the
\* interleaving, it never raises InvalidMetricError.
C37_GetOrCreateNeverInvalidMetric ==
    \A t \in threads :
        ret[t].op = "get_or_create_histogram" => ret[t].val # "InvalidMetricError"

-----------------------------------------------------------------------------
(* Properties of the samples a SlidingTime reservoir keeps under several callers *)

\* how many times e is in seq
Occurrences(seq, e) == Cardinality({i \in 1..Len(seq) : seq[i] = e})

\* how many adds of the sample e, stamped with its time, have not returned yet
InFlight(e) ==
    Cardinality({t \in threads : InAdd(t) /\ pc[t] # "idle" /\ <<loc[t].now, loc[t].value>> = e})

\* C38: whatever the interleaving of the add and values() calls of several threads on
\* a SlidingTime reservoir, every add that has returned and whose timestamp is still
\* inside the window is in the store: no admitted sample is lost to an expiry that runs
\* in another thread.
C38_AdmittedSampleIsKept ==
    kind = "time" =>
        \A k \in 1..Len(hist) :
            LET e == hist[k] IN
            e[1] >= clock - window_size =>
                Occurrences(values, e) >= Occurrences(hist, e) - InFlight(e)

-----------------------------------------------------------------------------
(* Properties of the number of ticks of a meter *)

\* C39: after any sequence of notify and get calls on a Meter under a clock that never
\* goes back, the four EWMAs have been ticked the same number of times, and that
\* number is at most the whole part of (now - started_on) / tick_interval.
C39_EwmasTickedAlike ==
    (\A t \in threads : pc[t] = "idle") =>
        /\ \A j, k \in AvgIdx : mhist.ticked[j] = mhist.ticked[k]
        /\ \A j \in AvgIdx :
               mhist.ticked[j] <= (clock - meter.started_on) \div tick_interval

\* after a get that made a tick, with fewer ticks made than intervals have passed
C39_Witness ==
    /\ \A t \in threads : pc[t] = "idle"
    /\ \E t \in threads : ret[t].op = "get"
    /\ \A j \in AvgIdx : mhist.ticked[j] = 1
    /\ (clock - meter.started_on) \div tick_interval = 2
    /\ mhist.observed # <<>>

-----------------------------------------------------------------------------
(* Properties of the counter of the ExponentialDecay reservoir *)

\* C40: in every state of an ExponentialDecay reservoir of capacity size that adds and
\* rescales reach (no add being inside a section it runs under the lock), the number of
\* stored entries is min(count, size): the reservoir is never taken for full
\* (count >= size) while it holds fewer than size entries.
C40_ExpDecayCountIsStored ==
    (kind = "exp" /\ \A t \in threads : pc[t] \notin {"ed_rescale_loop", "ed_sort"}) =>
        Len(values) = Min(count, size)

====
